---------------------------- MODULE Spec2Model ----------------------------
(***************************************************************************)
(* Request authorization and input sanitation core of go-rest-api-starter. *)
(*                                                                         *)
(* One inbound request travels down the gin handler chain of the route it  *)
(* matched: InputValidationMiddleware, GatewayAuthMiddleware, the RBAC     *)
(* gates and the business handler.  Go strings are sequences of one-       *)
(* character strings, so that parsing, case folding and the regular        *)
(* expressions of the filter are computed character by character.          *)
(***************************************************************************)
EXTENDS Integers, Sequences, FiniteSets, TLC

(***************************************************************************)
(* Characters and strings                                                  *)
(***************************************************************************)

Digits == <<"0", "1", "2", "3", "4", "5", "6", "7", "8", "9">>

UpperToLower ==
    [c \in {"A","B","C","D","E","F","G","H","I","J","K","L","M",
            "N","O","P","Q","R","S","T","U","V","W","X","Y","Z"} |->
        CASE c = "A" -> "a" [] c = "B" -> "b" [] c = "C" -> "c" [] c = "D" -> "d"
          [] c = "E" -> "e" [] c = "F" -> "f" [] c = "G" -> "g" [] c = "H" -> "h"
          [] c = "I" -> "i" [] c = "J" -> "j" [] c = "K" -> "k" [] c = "L" -> "l"
          [] c = "M" -> "m" [] c = "N" -> "n" [] c = "O" -> "o" [] c = "P" -> "p"
          [] c = "Q" -> "q" [] c = "R" -> "r" [] c = "S" -> "s" [] c = "T" -> "t"
          [] c = "U" -> "u" [] c = "V" -> "v" [] c = "W" -> "w" [] c = "X" -> "x"
          [] c = "Y" -> "y" [] c = "Z" -> "z"]

LowerLetters == {UpperToLower[c] : c \in DOMAIN UpperToLower}

\* Simple case folding of one character (ASCII letters; every other
\* character of the model folds to itself).
Fold(c) == IF c \in DOMAIN UpperToLower THEN UpperToLower[c] ELSE c

IsDigit(c) == \E i \in 1..10 : Digits[i] = c

\* The value of a decimal digit character.
DigitVal(c) == (CHOOSE i \in 1..10 : Digits[i] = c) - 1

\* \w of Go's regexp: [0-9A-Za-z_].
IsWordChar(c) == IsDigit(c) \/ c \in DOMAIN UpperToLower \/ c \in LowerLetters \/ c = "_"

\* \s of Go's regexp: [\t\n\f\r ].
IsSpace(c) == c \in {" ", "\t", "\n", "\r", "\f"}

\* strings.EqualFold: equality under simple case folding.
EqualFold(s, t) ==
    /\ Len(s) = Len(t)
    /\ \A i \in 1..Len(s) : Fold(s[i]) = Fold(t[i])

\* strings.Contains(s, sub).
Contains(s, sub) ==
    \E i \in 0..(Len(s) - Len(sub)) :
        \A k \in 1..Len(sub) : s[i + k] = sub[k]

(***************************************************************************)
(* Unsigned integers.  A uint32 value is the pair of its 16-bit halves,    *)
(* hi * 2^16 + lo, so that every value below 2^32 is represented exactly.  *)
(***************************************************************************)

Limb == 2^16

U32(hi, lo) == [hi |-> hi, lo |-> lo]

Zero32 == U32(0, 0)

\* strconv.ParseUint(s, 10, 32): every character must be a decimal digit (no
\* sign, no underscore, no prefix in base 10), and the value must not exceed
\* 1<<32 - 1.  Returns [err, v]; err is "" on success, else "syntax" or
\* "range".
\* The digit loop, on the two halves hi and lo of the value read so far.
RECURSIVE ParseDigits(_, _, _, _)
ParseDigits(s, i, hi, lo) ==
    IF i > Len(s) THEN [err |-> "", v |-> U32(hi, lo)]
    ELSE IF ~IsDigit(s[i]) THEN [err |-> "syntax", v |-> Zero32]
    ELSE IF hi * 10 + ((lo * 10 + DigitVal(s[i])) \div Limb) >= Limb
            THEN [err |-> "range", v |-> U32(Limb - 1, Limb - 1)]
    ELSE ParseDigits(s, i + 1,
                     hi * 10 + ((lo * 10 + DigitVal(s[i])) \div Limb),
                     (lo * 10 + DigitVal(s[i])) % Limb)

ParseUintFrom(s, i, n) == ParseDigits(s, i, n.hi, n.lo)

\* ParseUint accepting a leading sign, as strconv.ParseInt does.
ParseUint_AllowSign(s) ==
    IF s = <<>> THEN [err |-> "syntax", v |-> Zero32]
    ELSE IF s[1] = "+" /\ Len(s) > 1 THEN ParseUintFrom(s, 2, Zero32)
    ELSE ParseUintFrom(s, 1, Zero32)

ParseUint(s) ==
    IF s = <<>> THEN [err |-> "syntax", v |-> Zero32]
    ELSE ParseUintFrom(s, 1, Zero32)

\* fmt.Sprintf("%d", n): the decimal digits of n, without leading zeros.
RECURSIVE FormatUintAcc(_, _)
FormatUintAcc(n, acc) ==
    LET r1  == n.hi % 10
        mid == r1 * Limb + n.lo
        q   == U32(n.hi \div 10, mid \div 10)
        d   == Digits[(mid % 10) + 1]
    IN  IF q = Zero32 THEN <<d>> \o acc ELSE FormatUintAcc(q, <<d>> \o acc)

FormatUint(n) == FormatUintAcc(n, <<>>)

(***************************************************************************)
(* Attack signatures (input_validation.go).  Every pattern carries (?i):   *)
(* literals are compared under case folding.  `.` matches any character    *)
(* but a newline; \b, \w and \s are the ASCII classes of Go's regexp.      *)
(***************************************************************************)

\* Is position k of s a word character (positions outside s are not)?
WordCharAt(s, k) == k >= 1 /\ k <= Len(s) /\ IsWordChar(s[k])

\* \b between positions g and g+1 of s.
Boundary(s, g) == WordCharAt(s, g) # WordCharAt(s, g + 1)

\* LitAt with the (?i) flag forgotten: an exact comparison.
LitAt_CaseSensitive(s, i, lit) ==
    /\ i >= 1
    /\ i + Len(lit) - 1 <= Len(s)
    /\ \A k \in 1..Len(lit) : s[i + k - 1] = lit[k]

\* The lower-case literal lit occurs in s at position i, ignoring case.
LitAt(s, i, lit) ==
    /\ i >= 1
    /\ i + Len(lit) - 1 <= Len(s)
    /\ \A k \in 1..Len(lit) : Fold(s[i + k - 1]) = lit[k]

\* lit occurs somewhere in s, ignoring case.
HasLit(s, lit) == \E i \in 1..Len(s) : LitAt(s, i, lit)

\* \bw\b at position i.
WordAt(s, i, w) ==
    /\ LitAt(s, i, w)
    /\ Boundary(s, i - 1)
    /\ Boundary(s, i + Len(w) - 1)

\* The characters a..b of s are matched by .* (none is a newline).
DotStar(s, a, b) == \A k \in a..b : s[k] # "\n"

\* The characters a..b of s are matched by [^>]*.
NotGtStar(s, a, b) == \A k \in a..b : s[k] # ">"

\* (\bw1\b.*\bw2\b)
KeywordPair(s, w1, w2) ==
    \E i \in 1..Len(s) :
        /\ WordAt(s, i, w1)
        /\ \E j \in (i + Len(w1))..Len(s) :
              /\ WordAt(s, j, w2)
              /\ DotStar(s, i + Len(w1), j - 1)

\* (\bw\b.*=.*)
KeywordEquals(s, w) ==
    \E i \in 1..Len(s) :
        /\ WordAt(s, i, w)
        /\ \E j \in (i + Len(w))..Len(s) :
              /\ s[j] = "="
              /\ DotStar(s, i + Len(w), j - 1)

\* (<tag[^>]*>.*?</tag>), open == "<tag" and close == "</tag>"
TagPair(s, open, close) ==
    \E i \in 1..Len(s) :
        /\ LitAt(s, i, open)
        /\ \E j \in (i + Len(open))..Len(s) :
              /\ s[j] = ">"
              /\ NotGtStar(s, i + Len(open), j - 1)
              /\ \E k \in (j + 1)..Len(s) :
                    /\ LitAt(s, k, close)
                    /\ DotStar(s, j + 1, k - 1)

\* (on\w+\s*=)
EventHandler(s) ==
    \E i \in 1..Len(s) :
        /\ LitAt(s, i, <<"o", "n">>)
        /\ \E a \in (i + 2)..Len(s) :
              /\ \A k \in (i + 2)..a : IsWordChar(s[k])
              /\ \E b \in (a + 1)..Len(s) :
                    /\ s[b] = "="
                    /\ \A k \in (a + 1)..(b - 1) : IsSpace(s[k])

\* (<img[^>]*onerror[^>]*>)
ImgOnError(s) ==
    \E i \in 1..Len(s) :
        /\ LitAt(s, i, <<"<", "i", "m", "g">>)
        /\ \E j \in (i + 4)..Len(s) :
              /\ LitAt(s, j, <<"o", "n", "e", "r", "r", "o", "r">>)
              /\ NotGtStar(s, i + 4, j - 1)
              /\ \E k \in (j + 7)..Len(s) :
                    /\ s[k] = ">"
                    /\ NotGtStar(s, j + 7, k - 1)

kwUnion   == <<"u", "n", "i", "o", "n">>
kwSelect  == <<"s", "e", "l", "e", "c", "t">>
kwFrom    == <<"f", "r", "o", "m">>
kwInsert  == <<"i", "n", "s", "e", "r", "t">>
kwInto    == <<"i", "n", "t", "o">>
kwUpdate  == <<"u", "p", "d", "a", "t", "e">>
kwSet     == <<"s", "e", "t">>
kwDelete  == <<"d", "e", "l", "e", "t", "e">>
kwDrop    == <<"d", "r", "o", "p">>
kwTable   == <<"t", "a", "b", "l", "e">>
kwExec    == <<"e", "x", "e", "c">>
kwExecute == <<"e", "x", "e", "c", "u", "t", "e">>
kwOr      == <<"o", "r">>
kwAnd     == <<"a", "n", "d">>

\* The compiled pattern tables, in source order.
sqlInjectionPatterns ==
    <<"union_select", "select_from", "insert_into", "update_set",
      "delete_from", "drop_table", "exec", "comment", "or_equals",
      "and_equals", "quote_semicolon">>

xssPatterns == <<"script", "iframe", "javascript", "on_event", "img_onerror">>

\* pattern.MatchString(input): the pattern matches somewhere in input.
MatchString(pattern, input) ==
    CASE pattern = "union_select" -> KeywordPair(input, kwUnion, kwSelect)
      [] pattern = "select_from"  -> KeywordPair(input, kwSelect, kwFrom)
      [] pattern = "insert_into"  -> KeywordPair(input, kwInsert, kwInto)
      [] pattern = "update_set"   -> KeywordPair(input, kwUpdate, kwSet)
      [] pattern = "delete_from"  -> KeywordPair(input, kwDelete, kwFrom)
      [] pattern = "drop_table"   -> KeywordPair(input, kwDrop, kwTable)
      [] pattern = "exec" ->
            \E i \in 1..Len(input) :
                WordAt(input, i, kwExec) \/ WordAt(input, i, kwExecute)
      [] pattern = "comment" ->
            \/ HasLit(input, <<"-", "-">>)
            \/ HasLit(input, <<"#">>)
            \/ HasLit(input, <<"/", "*">>)
            \/ HasLit(input, <<"*", "/">>)
      [] pattern = "or_equals"  -> KeywordEquals(input, kwOr)
      [] pattern = "and_equals" -> KeywordEquals(input, kwAnd)
      [] pattern = "quote_semicolon" ->
            HasLit(input, <<"'", ";">>) \/ HasLit(input, <<"\"", ";">>)
      [] pattern = "script" ->
            TagPair(input, <<"<", "s", "c", "r", "i", "p", "t">>, <<"<", "/", "s", "c", "r", "i", "p", "t", ">">>)
      [] pattern = "iframe" ->
            TagPair(input, <<"<", "i", "f", "r", "a", "m", "e">>, <<"<", "/", "i", "f", "r", "a", "m", "e", ">">>)
      [] pattern = "javascript" -> HasLit(input, <<"j", "a", "v", "a", "s", "c", "r", "i", "p", "t", ":">>)
      [] pattern = "on_event"    -> EventHandler(input)
      [] pattern = "img_onerror" -> ImgOnError(input)

\* for _, pattern := range patterns { if pattern.MatchString(input) {...} }
RECURSIVE AnyPatternMatches(_, _, _)
AnyPatternMatches(patterns, i, input) ==
    IF i > Len(patterns) THEN FALSE
    ELSE IF MatchString(patterns[i], input) THEN TRUE
    ELSE AnyPatternMatches(patterns, i + 1, input)

isSuspicious(input) ==
    IF AnyPatternMatches(sqlInjectionPatterns, 1, input) THEN TRUE
    ELSE IF AnyPatternMatches(xssPatterns, 1, input) THEN TRUE
    ELSE IF Contains(input, <<"'", "'">>) \/ Contains(input, <<"\"", "\"">>) THEN TRUE
    ELSE FALSE

(***************************************************************************)
(* Request context store (gin.Context keys) and its accessors.             *)
(***************************************************************************)

\* A stored value carries its dynamic Go type.  NoValue: the key is not set.
NoValue == [type |-> "none", v |-> <<>>]

UintValue(n) == [type |-> "uint", v |-> n]

StringValue(s) == [type |-> "string", v |-> s]

IntValue(n) == [type |-> "int", v |-> n]

\* A value of any other dynamic type (a float64, a bool, a struct).
OtherValue == [type |-> "other", v |-> <<>>]

ContextKeyUserID == "user_id"

ContextKeyUserRole == "user_role"

\* The keys of package contextutil.
UserIDKey == "user_id"

\* contextutil keeping the role under a key of its own.
UserRoleKey_Own == "role"

UserRoleKey == "user_role"

\* A fresh gin.Context: no key is set.
EmptyContext ==
    [k \in {ContextKeyUserID, ContextKeyUserRole, UserIDKey, UserRoleKey} |-> NoValue]

\* c.Set(key, value)
ContextSet(c, key, value) == [c EXCEPT ![key] = value]

\* c.Get(key): (value, exists)
ContextGet(c, key) == [value |-> c[key], exists |-> c[key].type # "none"]

\* middleware.GetUserIDFromContext: (id, ok)
GetUserIDFromContext(c) ==
    LET got == ContextGet(c, ContextKeyUserID)
    IN  IF ~got.exists THEN [id |-> Zero32, ok |-> FALSE]
        ELSE IF got.value.type = "uint" THEN [id |-> got.value.v, ok |-> TRUE]
        ELSE [id |-> Zero32, ok |-> FALSE]

\* middleware.GetUserRoleFromContext: (role, ok)
GetUserRoleFromContext(c) ==
    LET got == ContextGet(c, ContextKeyUserRole)
    IN  IF ~got.exists THEN [role |-> <<>>, ok |-> FALSE]
        ELSE IF got.value.type = "string" THEN [role |-> got.value.v, ok |-> TRUE]
        ELSE [role |-> <<>>, ok |-> FALSE]

\* uint(v) of an int v: the value itself when v >= 0, else v + 2^w for a uint
\* of w bits (two's complement).  The halves are those of a 32-bit uint; on
\* a 64-bit build a negative v has 32 further high bits set.
IntToUint(v) ==
    IF v >= 0 THEN U32(v \div Limb, v % Limb)
    ELSE U32(Limb - 1 - ((-v - 1) \div Limb), Limb - 1 - ((-v - 1) % Limb))

\* contextutil.GetUserID: 0 when the key is unset or holds an unexpected shape.
GetUserID(c) ==
    LET got == ContextGet(c, UserIDKey)
    IN  IF ~got.exists THEN Zero32
        ELSE CASE got.value.type = "uint" -> got.value.v
               [] got.value.type = "int" -> IntToUint(got.value.v)
               [] got.value.type = "string" ->
                    LET parsed == ParseUint(got.value.v)
                    IN  IF parsed.err # "" THEN Zero32 ELSE parsed.v
               [] OTHER -> Zero32

\* contextutil.GetUserRole: "" when the key is unset or not a string.
GetUserRole(c) ==
    LET got == ContextGet(c, UserRoleKey)
    IN  IF ~got.exists THEN <<>>
        ELSE IF got.value.type = "string" THEN got.value.v
        ELSE <<>>

\* MustGetUserID failing only when the key is not set.
MustGetUserID_UnsetOnly(c) ==
    IF ~ContextGet(c, UserIDKey).exists
       THEN [id |-> Zero32, err |-> "user ID not found in context"]
       ELSE [id |-> GetUserID(c), err |-> ""]

\* contextutil.MustGetUserID: (id, err); err is "" for nil.
MustGetUserID(c) ==
    LET userID == GetUserID(c)
    IN  IF userID = Zero32
           THEN [id |-> Zero32, err |-> "user ID not found in context"]
           ELSE [id |-> userID, err |-> ""]

\* contextutil.MustGetUserRole: (role, err)
MustGetUserRole(c) ==
    LET role == GetUserRole(c)
    IN  IF role = <<>>
           THEN [role |-> <<>>, err |-> "user role not found in context"]
           ELSE [role |-> role, err |-> ""]

\* contextutil.IsAuthenticated
IsAuthenticated(c) == GetUserID(c) # Zero32

\* contextutil.HasRole: exact (case-sensitive) string equality.
HasRole(c, role) == GetUserRole(c) = role

roleAdmin == <<"a", "d", "m", "i", "n">>

roleUser == <<"u", "s", "e", "r">>

\* contextutil.IsAdmin
IsAdmin(c) == HasRole(c, roleAdmin)

\* CanAccessUser without the admin shortcut.
CanAccessUser_OwnerOnly(c, targetUserID) == GetUserID(c) = targetUserID

\* contextutil.CanAccessUser
CanAccessUser(c, targetUserID) ==
    IF IsAdmin(c) THEN TRUE
    ELSE GetUserID(c) = targetUserID

\* SetUserID writing only when the key is not set yet.
SetUserID_KeepFirst(c, userID) ==
    IF ContextGet(c, UserIDKey).exists THEN c ELSE ContextSet(c, UserIDKey, UintValue(userID))

\* contextutil.SetUserID
SetUserID(c, userID) == ContextSet(c, UserIDKey, UintValue(userID))

\* contextutil.SetUserRole
SetUserRole(c, role) == ContextSet(c, UserRoleKey, StringValue(role))

(***************************************************************************)
(* Requests, routes and handler chains                                     *)
(***************************************************************************)

HeaderUserID == "X-User-ID"

HeaderUserRole == "X-User-Role"

StatusBadRequest == 400

StatusUnauthorized == 401

StatusForbidden == 403

\* One entry of a route's handler chain.
Stage(mw, roles) == [mw |-> mw, roles |-> roles]

stInputValidation == Stage("InputValidationMiddleware", <<>>)

stGatewayAuth == Stage("GatewayAuthMiddleware", <<>>)

stHandler == Stage("Handler", <<>>)

\* middleware.RequireRole(roles...) mounted on a route group.
stRequireRole(roles) == Stage("RequireRole", roles)

\* RequireAdminRole mounted with the wrong role name.
RequireAdminRole_User == stRequireRole(<<roleUser>>)

\* middleware.RequireAdminRole() is RequireRole("admin").
RequireAdminRole == stRequireRole(<<roleAdmin>>)

\* The contextutil variant, RequireRole(role string), mounted on a route group.
stRequireRoleCtx(role) == Stage("RequireRoleCtx", <<role>>)

\* The contextutil variant's RequireAdmin() is RequireRole("admin").
RequireAdmin == stRequireRoleCtx(roleAdmin)

Route(path, chain, paramKeys) == [path |-> path, chain |-> chain, paramKeys |-> paramKeys]

\* SetupRouter with InputValidationMiddleware mounted on the protected groups
\* behind GatewayAuthMiddleware instead of on the router.
SetupRouter_FilterAfterAuth ==
    { Route("/health", <<stInputValidation, stHandler>>, <<>>),
      Route("/swagger/*any", <<stInputValidation, stHandler>>, <<"any">>),
      Route("/api/v1/public/register", <<stInputValidation, stHandler>>, <<>>),
      Route("/api/v1/users/me",
            <<stGatewayAuth, stInputValidation, stHandler>>, <<>>),
      Route("/api/v1/users/:id",
            <<stGatewayAuth, stInputValidation, stHandler>>, <<"id">>),
      Route("/api/v1/admin/users",
            <<stGatewayAuth, stInputValidation, RequireAdminRole, stHandler>>, <<>>),
      Route("/api/v1/admin/users/:id",
            <<stGatewayAuth, stInputValidation, RequireAdminRole, stHandler>>, <<"id">>) }

\* SetupRouter: InputValidationMiddleware is installed with router.Use before
\* any route is registered, so it heads every chain.  (Logger, ErrorHandler
\* and Recovery precede it and pass every request on.)
SetupRouter ==
    { Route("/health", <<stInputValidation, stHandler>>, <<>>),
      Route("/swagger/*any", <<stInputValidation, stHandler>>, <<"any">>),
      Route("/api/v1/public/register", <<stInputValidation, stHandler>>, <<>>),
      Route("/api/v1/users/me",
            <<stInputValidation, stGatewayAuth, stHandler>>, <<>>),
      Route("/api/v1/users/:id",
            <<stInputValidation, stGatewayAuth, stHandler>>, <<"id">>),
      Route("/api/v1/admin/users",
            <<stInputValidation, stGatewayAuth, RequireAdminRole, stHandler>>, <<>>),
      Route("/api/v1/admin/users/:id",
            <<stInputValidation, stGatewayAuth, RequireAdminRole, stHandler>>, <<"id">>) }

AdminRoutes == {r \in SetupRouter : r.path \in {"/api/v1/admin/users", "/api/v1/admin/users/:id"}}

GatewayAuthRoutes == {r \in SetupRouter : \E i \in 1..Len(r.chain) : r.chain[i] = stGatewayAuth}

VARIABLES
    req,          \* the inbound request: route, headers, query, path parameters
    ctx,          \* the request context store (c.Keys)
    index,        \* position in the handler chain (c.index)
    aborted,      \* c.Abort() was called
    responses,    \* the responses written with c.JSON, in order
    handlerRan,   \* the business handler was entered
    access,       \* the handler's ownership check: target and decision
    ran           \* the middleware entered so far, in order

\* State of the other scenarios of the module; a request travelling down its
\* chain leaves it alone.
VARIABLES
    written,      \* the id and role last written with SetUserID / SetUserRole
    reads,        \* what the getters of contextutil returned when last called
    conns,        \* the requests served concurrently, each with its own gin.Context
    pkg,          \* the package-level variables of package middleware
    gen,          \* the jwtGenerator NewJWTGenerator returned
    clock,        \* the wall clock, time.Now()
    issued,       \* the last Generate...Token call: arguments, database use, result
    users,        \* the user repository: its table and the last call's result
    app,          \* the application's lifecycle: HTTP server, database pool, OnStop
    san           \* the last SanitizeString call: input and result

vars ==
    <<req, ctx, index, aborted, responses, handlerRan, access, ran, written, reads,
      conns, pkg, gen, clock, issued, users, app, san>>

pipelineVars == <<req, index, aborted, responses, handlerRan, access, ran>>

storeVars == <<written, reads>>

connVars == <<conns, pkg>>

issuerVars == <<gen, clock, issued>>

hostVars == <<users, app, san>>

\* What a request travelling down its chain does not touch.
aside == <<storeVars, connVars, issuerVars, hostVars>>

\* Nothing was written through the setters; the getters were not called.
NoWrites == [id |-> [set |-> FALSE, v |-> U32(0, 0)], role |-> [set |-> FALSE, v |-> <<>>]]

NoReads == [taken |-> FALSE]

StoreIdle == written = NoWrites /\ reads = NoReads

\* var sqlInjectionPatterns, xssPatterns: assigned once, when the package is
\* initialised.
PackageVars == [sqlInjectionPatterns |-> sqlInjectionPatterns, xssPatterns |-> xssPatterns]

\* No requests are served side by side.
ConnsIdle == conns = <<>> /\ pkg = PackageVars

\* No generator was constructed, no token asked for.
NoGenerator == [jwtSecret |-> <<>>, accessTokenTTL |-> 0, refreshTokenTTL |-> 0, db |-> "nil"]

NoCall == [op |-> "none"]

IssuerIdle == gen = NoGenerator /\ clock = 0 /\ issued = NoCall

\* No repository, no application, no SanitizeString call.
HostIdle == users = NoCall /\ app = NoCall /\ san = NoCall

\* c.GetHeader(name): "" when the header is missing.
GetHeader(name) == IF name \in DOMAIN req.headers THEN req.headers[name] ELSE <<>>

\* Running with c.Abort() ignored by the loop of c.Next().
Running_IgnoresAbort == index <= Len(req.route.chain)

\* The stage c.Next() runs next, if any.
Running == ~aborted /\ index <= Len(req.route.chain)

Current == req.route.chain[index]

\* The request's processing is over: the chain is exhausted or was aborted.
Done == ~Running

\* Reject with c.Abort() forgotten: the response is written and gin goes on
\* to the next handler of the chain.
Reject_NoAbort(status, msg, key) ==
    /\ responses' = Append(responses, [status |-> status, msg |-> msg, key |-> key])
    /\ index' = index + 1
    /\ UNCHANGED aborted

\* c.JSON(status, gin.H{"error": msg + key}); c.Abort(); return
Reject(status, msg, key) ==
    /\ responses' = Append(responses, [status |-> status, msg |-> msg, key |-> key])
    /\ aborted' = TRUE
    /\ UNCHANGED index

\* c.Next()
CallNext ==
    /\ index' = index + 1
    /\ UNCHANGED <<aborted, responses>>

(***************************************************************************)
(* InputValidationMiddleware                                               *)
(***************************************************************************)

MsgQueryParameter == "Invalid input detected in query parameter: "

MsgPathParameter == "Invalid input detected in path parameter: "

\* AnySuspicious looking at the first value of a key only (as c.Query does).
AnySuspicious_FirstValue(values, i) == isSuspicious(values[1])

\* for _, value := range values { if isSuspicious(value) { ... return } }
RECURSIVE AnySuspicious(_, _)
AnySuspicious(values, i) ==
    IF i > Len(values) THEN FALSE
    ELSE IF isSuspicious(values[i]) THEN TRUE
    ELSE AnySuspicious(values, i + 1)

\* ScanQuery reporting the key the loop visited last instead of the key whose
\* value matched.
ScanQuery_ReportsLast(query, order, i) ==
    IF \E k \in i..Len(order) : AnySuspicious(query[order[k]], 1)
       THEN [found |-> TRUE, key |-> order[Len(order)]]
       ELSE [found |-> FALSE, key |-> ""]

\* for key, values := range c.Request.URL.Query(): the keys are visited in
\* `order` (Go's map iteration order); the first key holding a suspicious
\* value is reported.
RECURSIVE ScanQuery(_, _, _)
ScanQuery(query, order, i) ==
    IF i > Len(order) THEN [found |-> FALSE, key |-> ""]
    ELSE IF AnySuspicious(query[order[i]], 1) THEN [found |-> TRUE, key |-> order[i]]
    ELSE ScanQuery(query, order, i + 1)

\* for _, param := range c.Params { if isSuspicious(param.Value) { ... } }
RECURSIVE ScanParams(_, _)
ScanParams(params, i) ==
    IF i > Len(params) THEN [found |-> FALSE, key |-> ""]
    ELSE IF isSuspicious(params[i].Value) THEN [found |-> TRUE, key |-> params[i].Key]
    ELSE ScanParams(params, i + 1)

\* Every order in which a map's keys can be visited.
Orders(keys) ==
    {o \in [1..Cardinality(keys) -> keys] :
        \A i, j \in 1..Cardinality(keys) : o[i] = o[j] => i = j}

\* InputValidationMiddleware scanning the request body as well.
InputValidationMiddleware_ScansBody ==
    /\ Running
    /\ Current = stInputValidation
    /\ ran' = Append(ran, "InputValidationMiddleware")
    /\ \E order \in Orders(DOMAIN req.query) :
          LET q == ScanQuery(req.query, order, 1)
              p == ScanParams(req.params, 1)
          IN  IF q.found THEN Reject(StatusBadRequest, MsgQueryParameter, q.key)
              ELSE IF p.found THEN Reject(StatusBadRequest, MsgPathParameter, p.key)
              ELSE IF isSuspicious(req.body) THEN Reject(StatusBadRequest, MsgQueryParameter, "body")
              ELSE CallNext
    /\ UNCHANGED <<req, ctx, handlerRan, access>>
    /\ UNCHANGED aside

\* The filter reads c.Request.URL.Query() and c.Params, nothing else of the
\* request.
InputValidationMiddleware ==
    /\ Running
    /\ Current = stInputValidation
    /\ ran' = Append(ran, "InputValidationMiddleware")
    /\ \E order \in Orders(DOMAIN req.query) :
          LET q == ScanQuery(req.query, order, 1)
              p == ScanParams(req.params, 1)
          IN  IF q.found THEN Reject(StatusBadRequest, MsgQueryParameter, q.key)
              ELSE IF p.found THEN Reject(StatusBadRequest, MsgPathParameter, p.key)
              ELSE CallNext
    /\ UNCHANGED <<req, ctx, handlerRan, access>>
    /\ UNCHANGED aside

(***************************************************************************)
(* GatewayAuthMiddleware                                                   *)
(***************************************************************************)

\* DefaultRole without the fallback.
DefaultRole_Keep(userRole) == userRole

\* userRole := c.GetHeader(HeaderUserRole); if userRole == "" { userRole = "user" }
DefaultRole(userRole) == IF userRole = <<>> THEN roleUser ELSE userRole

\* ToUint through a 16-bit type: the high half is cut off.
ToUint_Uint16(userID) == U32(0, userID.lo)

\* uint(userID): ParseUint's result is below 2^32, which uint (32 or 64 bits
\* wide) holds unchanged.
ToUint(userID) == userID

GatewayAuthMiddleware ==
    /\ Running
    /\ Current = stGatewayAuth
    /\ ran' = Append(ran, "GatewayAuthMiddleware")
    /\ LET userIDStr == GetHeader(HeaderUserID)
           parsed    == ParseUint(userIDStr)
           userRole  == DefaultRole(GetHeader(HeaderUserRole))
       IN  IF userIDStr = <<>>
              THEN /\ Reject(StatusUnauthorized, "missing user ID header", "")
                   /\ UNCHANGED ctx
           ELSE IF parsed.err # ""
              THEN /\ Reject(StatusUnauthorized, "invalid user ID format", "")
                   /\ UNCHANGED ctx
           ELSE /\ ctx' = ContextSet(
                             ContextSet(ctx, ContextKeyUserID, UintValue(ToUint(parsed.v))),
                             ContextKeyUserRole, StringValue(userRole))
                /\ CallNext
    /\ UNCHANGED <<req, handlerRan, access>>
    /\ UNCHANGED aside

(***************************************************************************)
(* RBAC gates                                                              *)
(***************************************************************************)

\* RoleInList comparing with == instead of strings.EqualFold.
RoleInList_CaseSensitive(userRole, roles, i) == \E k \in i..Len(roles) : userRole = roles[k]

\* for _, role := range roles { if strings.EqualFold(userRole, role) {...} }
RECURSIVE RoleInList(_, _, _)
RoleInList(userRole, roles, i) ==
    IF i > Len(roles) THEN FALSE
    ELSE IF EqualFold(userRole, roles[i]) THEN TRUE
    ELSE RoleInList(userRole, roles, i + 1)

\* RequireRole that, on a match, writes the matched name back as the
\* request's role.
RequireRole_StoresMatched(roles) ==
    /\ Running
    /\ Current = stRequireRole(roles)
    /\ ran' = Append(ran, "RequireRole")
    /\ LET got == GetUserRoleFromContext(ctx)
       IN  IF ~got.ok
              THEN Reject(StatusUnauthorized, "user role not found", "") /\ UNCHANGED ctx
           ELSE IF ~RoleInList(got.role, roles, 1)
              THEN Reject(StatusForbidden, "insufficient permissions", "") /\ UNCHANGED ctx
           ELSE /\ CallNext
                /\ ctx' = ContextSet(ctx, ContextKeyUserRole,
                              StringValue(roles[CHOOSE k \in 1..Len(roles) :
                                                   EqualFold(got.role, roles[k])]))
    /\ UNCHANGED <<req, handlerRan, access>>
    /\ UNCHANGED aside

\* The handler returned by middleware.RequireRole(roles...).
RequireRole(roles) ==
    /\ Running
    /\ Current = stRequireRole(roles)
    /\ ran' = Append(ran, "RequireRole")
    /\ LET got == GetUserRoleFromContext(ctx)
       IN  IF ~got.ok
              THEN Reject(StatusUnauthorized, "user role not found", "")
           ELSE IF ~RoleInList(got.role, roles, 1)
              THEN Reject(StatusForbidden, "insufficient permissions", "")
           ELSE CallNext
    /\ UNCHANGED <<req, ctx, handlerRan, access>>
    /\ UNCHANGED aside

\* The handler returned by the contextutil variant, RequireRole(role string).
RequireRoleCtx(role) ==
    /\ Running
    /\ Current = stRequireRoleCtx(role)
    /\ ran' = Append(ran, "RequireRoleCtx")
    /\ IF ~HasRole(ctx, role)
          THEN Reject(StatusForbidden, "insufficient permissions", "")
          ELSE CallNext
    /\ UNCHANGED <<req, ctx, handlerRan, access>>
    /\ UNCHANGED aside

(***************************************************************************)
(* Business handler: the last entry of every chain.  It consults the       *)
(* access policy evaluator for some target user.                           *)
(***************************************************************************)

TargetIDs == {Zero32, U32(0, 4), U32(0, 7), U32(Limb - 1, Limb - 1)}

NoAccess == [checked |-> FALSE, target |-> Zero32, granted |-> FALSE]

Handler ==
    /\ Running
    /\ Current = stHandler
    /\ ran' = Append(ran, "Handler")
    /\ handlerRan' = TRUE
    /\ \E t \in TargetIDs :
          access' = [checked |-> TRUE, target |-> t, granted |-> CanAccessUser(ctx, t)]
    /\ CallNext
    /\ UNCHANGED <<req, ctx>>
    /\ UNCHANGED aside

(***************************************************************************)
(* Inbound requests                                                        *)
(***************************************************************************)

\* Longest generated X-User-ID digit string.
MaxIdLen == 2

\* Most values one generated query string carries, over all its keys.
MaxQueryValues == 2

\* Marks a header the request does not carry.
Absent == <<"(absent)">>

MakeHeaders(id, role) ==
    [h \in (IF id = Absent THEN {} ELSE {HeaderUserID})
           \cup (IF role = Absent THEN {} ELSE {HeaderUserRole}) |->
        IF h = HeaderUserID THEN id ELSE role]

DigitStrings == UNION {[1..k -> {"0", "4", "7"}] : k \in 1..MaxIdLen}

idMaxUint32 == <<"4", "2", "9", "4", "9", "6", "7", "2", "9", "5">>

BoundaryIds ==
    { idMaxUint32,
      <<"0", "4", "2", "9", "4", "9", "6", "7", "2", "9", "5">>,
      <<"4", "2", "9", "4", "9", "6", "7", "2", "9", "6">>,
      <<"4", "2", "9", "4", "9", "6", "7", "2", "9", "5", "0">>,
      <<"1", "8", "4", "4", "6", "7", "4", "4", "0", "7", "3", "7", "0", "9", "5", "5", "1", "6", "1", "6">> }

MalformedIds ==
    { <<"-", "1">>, <<"+", "7">>, <<"7", "a">>, <<"a", "b", "c">>, <<"1", "e", "3">>, <<"0", "x", "1", "0">> }

IdHeaders == {Absent, <<>>} \cup DigitStrings \cup BoundaryIds \cup MalformedIds

RoleHeaders ==
    { Absent, <<>>, roleUser, roleAdmin,
      <<"A", "D", "M", "I", "N">>, <<"A", "d", "m", "i", "n">>, <<"e", "d", "i", "t", "o", "r">> }

vAlice   == <<"a", "l", "i", "c", "e">>
v42      == <<"4", "2">>
vDate    == <<"2", "0", "2", "4", "-", "0", "1", "-", "0", "1">>
vOrTrue  == <<"1", "'", " ", "O", "R", " ", "'", "1", "'", "=", "'", "1">>
vScript  == <<"<", "s", "c", "r", "i", "p", "t", ">", "a", "l", "e", "r", "t", "(", "1", ")", "<", "/", "s", "c", "r", "i", "p", "t", ">">>
vDrop    == <<"1", ";", " ", "D", "R", "O", "P", " ", "T", "A", "B", "L", "E", " ", "u", "s", "e", "r", "s", ";", "-", "-">>
vOrQuote == <<"1", "\"", " ", "O", "R", " ", "\"", "\"", "=", "\"">>
vRobert  == <<"R", "o", "b", "e", "r", "t", "'", ")", ";", " ", "D", "R", "O", "P", " ", "T", "A", "B", "L", "E", " ", "s", "t", "u", "d", "e", "n", "t", "s", ";", "-", "-">>

AttackLiterals == {vOrTrue, vScript, vDrop, vOrQuote, vRobert}

OrdinaryLiterals == {vAlice, v42, vDate}

QueryKeys == {"name", "q"}

EmptyQuery == [k \in {} |-> <<>>]

SingleQuery(key, value) == [k \in {key} |-> <<value>>]

\* The values the generated multi-valued queries are built from.
MixValues == {vAlice, vOrTrue, vScript}

SeqsUpTo(S, lo, hi) == UNION {[1..n -> S] : n \in lo..hi}

\* Every query string over QueryKeys with at most MaxQueryValues values of
\* MixValues in total.
MixedQueries ==
    {EmptyQuery}
    \cup {[k \in {key} |-> vs] : key \in QueryKeys, vs \in SeqsUpTo(MixValues, 1, MaxQueryValues)}
    \cup { [k \in QueryKeys |-> IF k = "name" THEN a ELSE b] :
              <<a, b>> \in { <<a, b>> \in SeqsUpTo(MixValues, 1, MaxQueryValues - 1)
                                          \X SeqsUpTo(MixValues, 1, MaxQueryValues - 1) :
                                Len(a) + Len(b) <= MaxQueryValues } }

LiteralQueries == {SingleQuery("name", v) : v \in AttackLiterals \cup OrdinaryLiterals}

ParamValues == { <<"7">>, <<"a", "b", "c">>, <<"1", " ", "O", "R", " ", "1", "=", "1">> }

\* c.Params of a request matched to `route`, every parameter holding `value`.
MakeParams(route, value) ==
    [i \in 1..Len(route.paramKeys) |-> [Key |-> route.paramKeys[i], Value |-> value]]

MakeRequest(route, id, role, query, value) ==
    [route |-> route, headers |-> MakeHeaders(id, role), query |-> query,
     params |-> MakeParams(route, value), body |-> <<>>]

ParamChoices(route, values) == IF route.paramKeys = <<>> THEN {<<>>} ELSE values

\* Requests that vary the identity headers.
AuthRequests ==
    { MakeRequest(route, id, role, query, <<"7">>) :
        route \in SetupRouter, id \in IdHeaders, role \in RoleHeaders,
        query \in {EmptyQuery, SingleQuery("q", vOrTrue)} }

\* Requests that vary the query string and the path parameters.
FilterRequests ==
    UNION { { MakeRequest(route, id, role, query, value) :
                id \in {Absent, <<"7">>}, role \in {Absent, roleAdmin},
                query \in MixedQueries \cup LiteralQueries,
                value \in ParamChoices(route, ParamValues) } :
            route \in SetupRouter }

\* Role lists a gate is mounted with.
RoleLists ==
    { <<>>, <<roleAdmin>>, <<roleUser, roleAdmin>>, <<<<"E", "d", "i", "t", "o", "r">>>> }

\* Route groups composed from the package's exported gates, with and without
\* GatewayAuthMiddleware in front.
GateRoutes ==
    { Route("/gate", <<stRequireRole(R), stHandler>>, <<>>) : R \in RoleLists }
    \cup { Route("/auth/gate", <<stGatewayAuth, stRequireRole(R), stHandler>>, <<>>) :
              R \in RoleLists }
    \cup { Route("/gate", <<g, stHandler>>, <<>>) :
              g \in {RequireAdmin, stRequireRoleCtx(roleUser)} }
    \cup { Route("/auth/gate", <<stGatewayAuth, g, stHandler>>, <<>>) :
              g \in {RequireAdmin, stRequireRoleCtx(roleUser)} }

GateRequests ==
    { MakeRequest(route, id, role, EmptyQuery, <<>>) :
        route \in GateRoutes, id \in IdHeaders, role \in RoleHeaders }

\* Every gate some route mounts.
MountedGates ==
    {r.chain[i] : <<r, i>> \in {<<r, i>> \in (SetupRouter \cup GateRoutes) \X (1..4) :
                                   /\ i <= Len(r.chain)
                                   /\ r.chain[i].mw \in {"RequireRole", "RequireRoleCtx"}}}

\* Requests with a body (c.Request.Body) that holds an attack literal, under
\* either query key, with and without identity headers.
BodyRequests ==
    UNION { { [MakeRequest(route, id, role, query, value) EXCEPT !.body = body] :
                id \in {Absent, <<"7">>}, role \in {Absent, roleAdmin},
                query \in {EmptyQuery, SingleQuery("q", vAlice), SingleQuery("name", vAlice),
                           SingleQuery("name", vOrTrue)},
                value \in ParamChoices(route, {<<"7">>}),
                body \in {vScript, vOrTrue} } :
            route \in SetupRouter }

Requests == AuthRequests \cup FilterRequests \cup GateRequests \cup BodyRequests

Init ==
    /\ req \in Requests
    /\ ctx = EmptyContext
    /\ index = 1
    /\ aborted = FALSE
    /\ responses = <<>>
    /\ handlerRan = FALSE
    /\ access = NoAccess
    /\ ran = <<>>
    /\ StoreIdle
    /\ ConnsIdle
    /\ IssuerIdle
    /\ HostIdle

Next ==
    \/ InputValidationMiddleware
    \/ GatewayAuthMiddleware
    \/ \E g \in MountedGates : g.mw = "RequireRole" /\ RequireRole(g.roles)
    \/ \E g \in MountedGates : g.mw = "RequireRoleCtx" /\ RequireRoleCtx(g.roles[1])
    \/ Handler

Spec == Init /\ [][Next]_vars

\* gin runs the chain of a request synchronously, one handler after the
\* other: a request that has a next stage takes it.
FairSpec == Spec /\ WF_vars(Next)

(***************************************************************************)
(* The request context store on its own: within one request scope the      *)
(* setters and c.Set write the two keys, in any order and any number of    *)
(* times, and the getters are called in between.                           *)
(***************************************************************************)

\* The request scope the store belongs to: no stage of a chain is running.
NoRequest ==
    [route |-> Route("", <<>>, <<>>), headers |-> MakeHeaders(Absent, Absent),
     query |-> EmptyQuery, params |-> <<>>]

PipelineIdle ==
    /\ req = NoRequest
    /\ index = 1
    /\ aborted = FALSE
    /\ responses = <<>>
    /\ handlerRan = FALSE
    /\ access = NoAccess
    /\ ran = <<>>

\* The ids and roles written through the setters.
StoreIDs == {Zero32, U32(0, 4), U32(0, 7), U32(Limb - 1, Limb - 1)}

StoreRoles == {<<>>, roleUser, roleAdmin, <<"A", "d", "m", "i", "n">>}

\* What c.Set can put under the user_id key besides a uint: the shapes of
\* GetUserID's type switch (an int, a string) and one it does not list.
RawInts == {-1, 0, 7}

RawStrings ==
    { <<>>, <<"7">>, <<"0", "0", "7">>, <<"0">>, <<"a", "b", "c">>, <<"-", "1">>,
      idMaxUint32, <<"4", "2", "9", "4", "9", "6", "7", "2", "9", "6">> }

CallSetUserID(userID) ==
    /\ ctx' = SetUserID(ctx, userID)
    /\ written' = [written EXCEPT !.id = [set |-> TRUE, v |-> userID]]
    /\ reads' = NoReads
    /\ UNCHANGED <<pipelineVars, connVars, issuerVars, hostVars>>

CallSetUserRole(role) ==
    /\ ctx' = SetUserRole(ctx, role)
    /\ written' = [written EXCEPT !.role = [set |-> TRUE, v |-> role]]
    /\ reads' = NoReads
    /\ UNCHANGED <<pipelineVars, connVars, issuerVars, hostVars>>

\* c.Set(key, value) by code other than the setters: the value has any shape.
CallSet(key, value) ==
    /\ ctx' = ContextSet(ctx, key, value)
    /\ written' = IF key = UserIDKey THEN [written EXCEPT !.id = NoWrites.id]
                                     ELSE [written EXCEPT !.role = NoWrites.role]
    /\ reads' = NoReads
    /\ UNCHANGED <<pipelineVars, connVars, issuerVars, hostVars>>

\* The getters are called on the store as it is.
CallGetters ==
    /\ reads' = [taken |-> TRUE,
                 GetUserID |-> GetUserID(ctx),
                 MustGetUserID |-> MustGetUserID(ctx),
                 GetUserRole |-> GetUserRole(ctx),
                 MustGetUserRole |-> MustGetUserRole(ctx),
                 IsAuthenticated |-> IsAuthenticated(ctx)]
    /\ UNCHANGED <<ctx, written>>
    /\ UNCHANGED <<pipelineVars, connVars, issuerVars, hostVars>>

StoreInit ==
    /\ PipelineIdle
    /\ ctx = EmptyContext
    /\ StoreIdle
    /\ ConnsIdle
    /\ IssuerIdle
    /\ HostIdle

StoreNext ==
    \/ \E userID \in StoreIDs : CallSetUserID(userID)
    \/ \E role \in StoreRoles : CallSetUserRole(role)
    \/ \E n \in RawInts : CallSet(UserIDKey, IntValue(n))
    \/ \E t \in RawStrings : CallSet(UserIDKey, StringValue(t))
    \/ CallSet(UserIDKey, OtherValue)
    \/ CallSet(UserRoleKey, UintValue(U32(0, 7)))
    \/ CallSet(UserRoleKey, OtherValue)
    \/ CallGetters

StoreSpec == StoreInit /\ [][StoreNext]_vars

(***************************************************************************)
(* Requests served concurrently.  gin serves every request in a goroutine  *)
(* of its own and hands the handlers of its chain a *gin.Context of its    *)
(* own; the goroutines interleave statement by statement.  The handlers    *)
(* are those of rbac.go and input_validation.go, here acting on the        *)
(* context of the request they serve.                                      *)
(***************************************************************************)

\* The requests served side by side.
NumConns == 2

\* r.Header.Get(name) on request r.
HeaderOf(r, name) == IF name \in DOMAIN r.headers THEN r.headers[name] ELSE <<>>

ConcRoute == CHOOSE r \in SetupRouter : r.path = "/api/v1/admin/users/:id"

UserRoute == CHOOSE r \in SetupRouter : r.path = "/api/v1/users/:id"

ConcRequests ==
    { MakeRequest(ConcRoute, <<"4">>, roleUser, EmptyQuery, <<"7">>),
      MakeRequest(ConcRoute, <<"7">>, roleAdmin, EmptyQuery, <<"7">>),
      MakeRequest(ConcRoute, <<"7">>, <<"A", "d", "m", "i", "n">>, SingleQuery("q", vOrTrue), <<"7">>),
      MakeRequest(ConcRoute, Absent, roleAdmin, EmptyQuery, <<"7">>),
      MakeRequest(UserRoute, <<"4">>, Absent, EmptyQuery, <<"4">>),
      MakeRequest(UserRoute, idMaxUint32, roleAdmin, EmptyQuery, <<"4">>) }

\* Nothing was read from the context yet.
NotSeen == [read |-> FALSE, id |-> Zero32, role |-> <<>>]

\* A request as gin starts serving it: a reset context, the chain at its head.
NewConn(r) ==
    [req |-> r, ctx |-> EmptyContext, index |-> 1, aborted |-> FALSE, status |-> 0,
     pc |-> "", seen |-> NotSeen]

ConnRunning(k) == ~k.aborted /\ k.index <= Len(k.req.route.chain)

ConnStage(k) == k.req.route.chain[k.index]

\* c.JSON(status, ...); c.Abort(); return
ConnReject(k, status) == [k EXCEPT !.aborted = TRUE, !.status = status]

\* c.Next()
ConnNext(k) == [k EXCEPT !.index = @ + 1]

\* c.Set(key, value) with the keys kept in one map for all requests.
SetOnContext_Shared(cs, i, key, value) ==
    [j \in DOMAIN cs |-> [cs[j] EXCEPT !.ctx = ContextSet(@, key, value)]]

\* c.Set(key, value) by the handler serving request i: c is that request's
\* context.
SetOnContext(cs, i, key, value) == [cs EXCEPT ![i].ctx = ContextSet(@, key, value)]

\* InputValidationMiddleware serving request i; it reads the package-level
\* pattern tables.
ServeInputValidation(i) ==
    LET k == conns[i]
    IN  /\ ConnRunning(k)
        /\ ConnStage(k) = stInputValidation
        /\ \E order \in Orders(DOMAIN k.req.query) :
              LET q == ScanQuery(k.req.query, order, 1)
                  p == ScanParams(k.req.params, 1)
              IN  conns' = [conns EXCEPT ![i] =
                               IF q.found \/ p.found THEN ConnReject(k, StatusBadRequest)
                                                     ELSE ConnNext(k)]
        /\ UNCHANGED <<pkg, ctx, pipelineVars, storeVars, issuerVars, hostVars>>

\* GatewayAuthMiddleware serving request i, up to c.Set(ContextKeyUserID, ...).
ServeGatewayAuth(i) ==
    LET k == conns[i]
        userIDStr == HeaderOf(k.req, HeaderUserID)
        parsed    == ParseUint(userIDStr)
    IN  /\ ConnRunning(k)
        /\ ConnStage(k) = stGatewayAuth
        /\ k.pc = ""
        /\ conns' = IF userIDStr = <<>> \/ parsed.err # ""
                       THEN [conns EXCEPT ![i] = ConnReject(k, StatusUnauthorized)]
                       ELSE SetOnContext([conns EXCEPT ![i].pc = "SetUserRole"], i,
                                         ContextKeyUserID, UintValue(ToUint(parsed.v)))
        /\ UNCHANGED <<pkg, ctx, pipelineVars, storeVars, issuerVars, hostVars>>

\* GatewayAuthMiddleware serving request i: c.Set(ContextKeyUserRole, userRole)
\* and c.Next().
ServeGatewayAuthRole(i) ==
    LET k == conns[i]
        userRole == DefaultRole(HeaderOf(k.req, HeaderUserRole))
    IN  /\ ConnRunning(k)
        /\ ConnStage(k) = stGatewayAuth
        /\ k.pc = "SetUserRole"
        /\ conns' = SetOnContext([conns EXCEPT ![i] = ConnNext([k EXCEPT !.pc = ""])], i,
                                 ContextKeyUserRole, StringValue(userRole))
        /\ UNCHANGED <<pkg, ctx, pipelineVars, storeVars, issuerVars, hostVars>>

\* The handler RequireRole(roles...) returned, serving request i.
ServeRequireRole(i) ==
    LET k == conns[i]
        got == GetUserRoleFromContext(k.ctx)
    IN  /\ ConnRunning(k)
        /\ ConnStage(k).mw = "RequireRole"
        /\ conns' = [conns EXCEPT ![i] =
                        IF ~got.ok THEN ConnReject(k, StatusUnauthorized)
                        ELSE IF ~RoleInList(got.role, ConnStage(k).roles, 1)
                                THEN ConnReject(k, StatusForbidden)
                        ELSE ConnNext(k)]
        /\ UNCHANGED <<pkg, ctx, pipelineVars, storeVars, issuerVars, hostVars>>

\* The business handler serving request i reads the principal.
ServeHandler(i) ==
    LET k == conns[i]
    IN  /\ ConnRunning(k)
        /\ ConnStage(k) = stHandler
        /\ conns' = [conns EXCEPT ![i] =
                        ConnNext([k EXCEPT !.seen = [read |-> TRUE,
                                                     id |-> GetUserID(k.ctx),
                                                     role |-> GetUserRole(k.ctx)]])]
        /\ UNCHANGED <<pkg, ctx, pipelineVars, storeVars, issuerVars, hostVars>>

ConcInit ==
    /\ PipelineIdle
    /\ ctx = EmptyContext
    /\ StoreIdle
    /\ IssuerIdle
    /\ HostIdle
    /\ pkg = PackageVars
    /\ conns \in {[i \in 1..NumConns |-> NewConn(rs[i])] : rs \in [1..NumConns -> ConcRequests]}

ConcNext ==
    \E i \in 1..NumConns :
        \/ ServeInputValidation(i)
        \/ ServeGatewayAuth(i)
        \/ ServeGatewayAuthRole(i)
        \/ ServeRequireRole(i)
        \/ ServeHandler(i)

ConcSpec == ConcInit /\ [][ConcNext]_vars

(***************************************************************************)
(* Token issuer (jwt_generator.go).  Durations and instants are counted in *)
(* ticks of the clock, TicksPerSecond to the second; a token's exp, iat    *)
(* and nbf are Unix times, whole seconds.                                  *)
(***************************************************************************)

\* Resolution of the clock.
TicksPerSecond == 2

\* The latest instant of the clock, in ticks.
MaxClock == 3

\* time.Second, time.Minute, time.Hour
Second == TicksPerSecond

Minute == 60 * Second

Hour == 60 * Minute

\* t.Unix(): the whole seconds elapsed at instant t.
Unix(t) == t \div Second

\* A []string: nil, or a list of elements (possibly none).
NilSlice == [nil |-> TRUE, elems |-> <<>>]

Slice(elems) == [nil |-> FALSE, elems |-> elems]

JWTConfig(secret, accessTTL, ttlHours, refreshTTL) ==
    [Secret |-> secret, AccessTokenTTL |-> accessTTL, TTLHours |-> ttlHours,
     RefreshTokenTTL |-> refreshTTL]

defaultSecret ==
    <<"d", "e", "f", "a", "u", "l", "t", "-", "s", "e", "c", "r", "e", "t", "-", "c", "h", "a",
      "n", "g", "e", "-", "i", "n", "-", "p", "r", "o", "d", "u", "c", "t", "i", "o", "n">>

NewJWTGenerator(cfg, db) ==
    [jwtSecret |-> IF cfg.Secret = <<>> THEN defaultSecret ELSE cfg.Secret,
     accessTokenTTL |->
        IF cfg.AccessTokenTTL = 0
           THEN IF cfg.TTLHours > 0 THEN cfg.TTLHours * Hour ELSE 15 * Minute
           ELSE cfg.AccessTokenTTL,
     refreshTokenTTL |-> IF cfg.RefreshTokenTTL = 0 THEN 168 * Hour ELSE cfg.RefreshTokenTTL,
     db |-> db]

\* token.SignedString([]byte(secret)) of an HS256 token: the claims under
\* the key.  HMAC signing with a byte-slice key returns no error.
SignedString(claims, secret) == [ok |-> TRUE, claims |-> claims, key |-> secret]

\* The "" returned in place of a token.
NoToken == [ok |-> FALSE]

\* NeedsLookup taking an explicit empty list for a missing one.
NeedsLookup_WhenEmpty(roles, db) == Len(roles.elems) = 0 /\ db # "nil"

\* if roles == nil && g.db != nil
NeedsLookup(roles, db) == roles.nil /\ db # "nil"

\* The access token's claims.
AccessClaims(userID, email, name, roles, now, expirationTime) ==
    [sub |-> FormatUint(userID), email |-> email, name |-> name, roles |-> roles,
     exp |-> Unix(expirationTime), iat |-> Unix(now), nbf |-> Unix(now)]

\* dbErr, roleNames: what the role query yields, a failure of the database
\* call or the names of the user's roles.
GenerateAccessToken(userID, email, name, roles) ==
    /\ issued.op # "none"
    /\ \E dbErr \in BOOLEAN, roleNames \in {<<>>, <<roleUser>>, <<roleAdmin, roleUser>>} :
          LET now            == clock
              expirationTime == now + gen.accessTokenTTL
              lookup         == NeedsLookup(roles, gen.db)
              call           == [op |-> "GenerateAccessToken", cfg |-> issued.cfg, boot |-> issued.boot, at |-> now,
                                 userID |-> userID, roles |-> roles, queried |-> lookup]
          IN  IF lookup /\ dbErr
                 THEN issued' = call @@
                                [dbFailed |-> TRUE, signed |-> FALSE, token |-> NoToken,
                                 err |-> "failed to fetch user roles"]
                 ELSE issued' = call @@
                                [dbFailed |-> FALSE, signed |-> TRUE,
                                 token |-> SignedString(
                                     AccessClaims(userID, email, name,
                                                  IF lookup THEN Slice(roleNames) ELSE roles,
                                                  now, expirationTime),
                                     gen.jwtSecret),
                                 err |-> ""]
    /\ UNCHANGED <<gen, clock>>
    /\ UNCHANGED <<pipelineVars, ctx, storeVars, connVars, hostVars>>

\* RefreshExpiry computed from the access token's lifetime.
RefreshExpiry_AccessTTL(g, now) == now + g.accessTokenTTL

\* expirationTime := now.Add(g.refreshTokenTTL)
RefreshExpiry(g, now) == now + g.refreshTokenTTL

GenerateRefreshToken(userID) ==
    /\ issued.op # "none"
    /\ LET now            == clock
           expirationTime == RefreshExpiry(gen, now)
           claims         == [sub |-> FormatUint(userID), type |-> "refresh",
                              exp |-> Unix(expirationTime), iat |-> Unix(now),
                              nbf |-> Unix(now)]
       IN  issued' = [op |-> "GenerateRefreshToken", cfg |-> issued.cfg, boot |-> issued.boot, at |-> now,
                      userID |-> userID, signed |-> TRUE,
                      token |-> SignedString(claims, gen.jwtSecret), err |-> ""]
    /\ UNCHANGED <<gen, clock>>
    /\ UNCHANGED <<pipelineVars, ctx, storeVars, connVars, hostVars>>

\* Time passes.
Tick ==
    /\ issued.op # "none"
    /\ clock < MaxClock
    /\ clock' = clock + 1
    /\ UNCHANGED <<gen, issued>>
    /\ UNCHANGED <<pipelineVars, ctx, storeVars, connVars, hostVars>>

\* The provider of auth.JWTGenerator in mainWithFx: the generator it hands to
\* the application, the error it fails the start with and what it logs.  It
\* passes cfg.JWT on as it is; NewJWTGenerator returns no error, takes no
\* logger and is not told cfg.App.Environment.
ProvideJWTGenerator(cfg, db) ==
    [generator |-> NewJWTGenerator(cfg.JWT, db), err |-> "", logged |-> <<>>]

\* The values of cfg.App.Environment.
Environments == {"development", "production"}

\* The configurations the generator is built from; a zero field is unset.
JWTConfigs ==
    { JWTConfig(secret, accessTTL, ttlHours, refreshTTL) :
        secret \in {<<>>, <<"k", "3", "y">>},
        accessTTL \in {0, Minute},
        ttlHours \in {0, 1},
        refreshTTL \in {0, 1, Second, Second + 1, Hour} }

IssuerUserIDs == {U32(0, 7), U32(Limb - 1, Limb - 1)}

IssuerRoleLists == {NilSlice, Slice(<<>>), Slice(<<roleUser>>), Slice(<<roleAdmin, roleUser>>)}

IssuerInit ==
    /\ PipelineIdle
    /\ ctx = EmptyContext
    /\ StoreIdle
    /\ ConnsIdle
    /\ HostIdle
    /\ clock = 0
    /\ \E jwt \in JWTConfigs, env \in Environments, db \in {"nil", "conn"} :
          LET cfg      == [App |-> [Environment |-> env], JWT |-> jwt]
              provided == ProvideJWTGenerator(cfg, db)
          IN  /\ provided.err = ""
              /\ gen = provided.generator
              /\ issued = [op |-> "NewJWTGenerator", cfg |-> cfg.JWT,
                           boot |-> [Environment |-> env, logged |-> provided.logged]]

IssuerNext ==
    \/ \E userID \in IssuerUserIDs, roles \in IssuerRoleLists :
          GenerateAccessToken(userID, "a@example.com", "Ann", roles)
    \/ \E userID \in IssuerUserIDs : GenerateRefreshToken(userID)
    \/ Tick

IssuerSpec == IssuerInit /\ [][IssuerNext]_vars

(***************************************************************************)
(* GenerateAccessToken step by step around its one blocking call, the role *)
(* query, while the request it serves may be cancelled.  issued.pc is      *)
(* "query" while the call waits for the database; issued.answer is what    *)
(* the database has answered; issued.cancelled tells that the request was  *)
(* cancelled or its deadline passed during the call.                       *)
(***************************************************************************)

NoAnswer == [got |-> FALSE, err |-> FALSE, roleNames |-> <<>>]

\* Lines 57-68: the call up to the query.  GenerateAccessToken takes no
\* context.Context and the query is built on g.db without WithContext, so
\* the request's context is not handed to the database call.  A call that
\* needs no query runs to its end.
BeginGenerateAccessToken(userID, email, name, roles) ==
    /\ issued.op \in {"NewJWTGenerator", "GenerateAccessToken"}
    /\ issued.op = "GenerateAccessToken" => issued.pc = "done"
    /\ LET call == [op |-> "GenerateAccessToken", cfg |-> issued.cfg, boot |-> issued.boot,
                    at |-> clock, userID |-> userID, email |-> email, name |-> name,
                    roles |-> roles, cancelled |-> FALSE, answer |-> NoAnswer]
       IN  IF NeedsLookup(roles, gen.db)
              THEN issued' = call @@ [pc |-> "query", token |-> NoToken, err |-> ""]
              ELSE issued' = call @@
                      [pc |-> "done", err |-> "",
                       token |-> SignedString(
                           AccessClaims(userID, email, name, roles, clock,
                                        clock + gen.accessTokenTTL),
                           gen.jwtSecret)]
    /\ UNCHANGED <<gen, clock>>
    /\ UNCHANGED <<pipelineVars, ctx, storeVars, connVars, hostVars>>

\* The request the call serves is cancelled upstream, or its deadline passes.
CancelRequest ==
    /\ issued.op = "GenerateAccessToken"
    /\ issued.pc = "query"
    /\ ~issued.cancelled
    /\ issued' = [issued EXCEPT !.cancelled = TRUE]
    /\ UNCHANGED <<gen, clock>>
    /\ UNCHANGED <<pipelineVars, ctx, storeVars, connVars, hostVars>>

\* The database answers the query, with an error or with the role names.
\* Nothing obliges it to.
DatabaseAnswers ==
    /\ issued.op = "GenerateAccessToken"
    /\ issued.pc = "query"
    /\ ~issued.answer.got
    /\ \E dbErr \in BOOLEAN, roleNames \in {<<>>, <<roleAdmin, roleUser>>} :
          issued' = [issued EXCEPT !.answer =
                        [got |-> TRUE, err |-> dbErr,
                         roleNames |-> IF dbErr THEN <<>> ELSE roleNames]]
    /\ UNCHANGED <<gen, clock>>
    /\ UNCHANGED <<pipelineVars, ctx, storeVars, connVars, hostVars>>

\* Lines 69-91: Find has returned; the error is passed on, or the token is
\* built from the names and signed.
ReturnFromQuery ==
    /\ issued.op = "GenerateAccessToken"
    /\ issued.pc = "query"
    /\ issued.answer.got
    /\ IF issued.answer.err
          THEN issued' = [issued EXCEPT !.pc = "done", !.err = "failed to fetch user roles"]
          ELSE issued' = [issued EXCEPT
                            !.pc = "done",
                            !.token = SignedString(
                                AccessClaims(issued.userID, issued.email, issued.name,
                                             Slice(issued.answer.roleNames), issued.at,
                                             issued.at + gen.accessTokenTTL),
                                gen.jwtSecret)]
    /\ UNCHANGED <<gen, clock>>
    /\ UNCHANGED <<pipelineVars, ctx, storeVars, connVars, hostVars>>

LookupNext ==
    \/ \E roles \in IssuerRoleLists :
          BeginGenerateAccessToken(U32(0, 7), "a@example.com", "Ann", roles)
    \/ CancelRequest
    \/ DatabaseAnswers
    \/ ReturnFromQuery

LookupSpec == IssuerInit /\ [][LookupNext]_vars

\* The goroutine of the call runs whenever it can: it returns once the
\* database has answered.  The database and the client are not obliged to
\* do anything.
LookupFairSpec == LookupSpec /\ WF_vars(ReturnFromQuery)

(***************************************************************************)
(* SanitizeString (input_validation.go).                                   *)
(***************************************************************************)

\* The longest input string.
MaxInputLen == 4

\* strings.ReplaceAll(s, old, new) for a non-empty old: the non-overlapping
\* occurrences of old, found from left to right, are replaced; i is the
\* position the scan has reached.
RECURSIVE ReplaceFrom(_, _, _, _)
ReplaceFrom(s, i, old, new) ==
    IF i > Len(s) THEN <<>>
    ELSE IF LitAt_CaseSensitive(s, i, old)
            THEN new \o ReplaceFrom(s, i + Len(old), old, new)
    ELSE <<s[i]>> \o ReplaceFrom(s, i + 1, old, new)

ReplaceAll(s, old, new) == ReplaceFrom(s, 1, old, new)

\* strings.TrimSpace(s): s without its leading and trailing white space.
RECURSIVE TrimLeft(_)
TrimLeft(s) == IF s # <<>> /\ IsSpace(s[1]) THEN TrimLeft(Tail(s)) ELSE s

RECURSIVE TrimRight(_)
TrimRight(s) ==
    IF s # <<>> /\ IsSpace(s[Len(s)]) THEN TrimRight(SubSeq(s, 1, Len(s) - 1)) ELSE s

TrimSpace(s) == TrimRight(TrimLeft(s))

SanitizeString(input) ==
    LET s1 == ReplaceAll(input, <<"-", "-">>, <<>>)
        s2 == ReplaceAll(s1, <<"/", "*">>, <<>>)
        s3 == ReplaceAll(s2, <<"*", "/">>, <<>>)
        s4 == ReplaceAll(s3, <<"#">>, <<>>)
        s5 == ReplaceAll(s4, <<"'", "'">>, <<"'">>)
        s6 == ReplaceAll(s5, <<"\"", "\"">>, <<"\"">>)
    IN  TrimSpace(s6)

\* The characters the input strings are written in.
SanitizeAlphabet == {"-", "/", "*", "#", "'", "\"", " ", "a"}

SanitizeInputs == SeqsUpTo(SanitizeAlphabet, 0, MaxInputLen)

\* A caller passes san.input to SanitizeString.
CallSanitizeString ==
    /\ san.op = "input"
    /\ san' = [op |-> "SanitizeString", input |-> san.input,
               output |-> SanitizeString(san.input)]
    /\ UNCHANGED <<users, app>>
    /\ UNCHANGED <<pipelineVars, ctx, storeVars, connVars, issuerVars>>

SanitizeInit ==
    /\ PipelineIdle
    /\ ctx = EmptyContext
    /\ StoreIdle
    /\ ConnsIdle
    /\ IssuerIdle
    /\ users = NoCall
    /\ app = NoCall
    /\ \E input \in SanitizeInputs : san = [op |-> "input", input |-> input, output |-> <<>>]

SanitizeNext == CallSanitizeString

SanitizeSpec == SanitizeInit /\ [][SanitizeNext]_vars

(***************************************************************************)
(* User repository (package user).  Behind the Repository interface the    *)
(* integration test drives: a table of users keyed by an id the database   *)
(* assigns, and the calls Create, GetByID, GetByEmail, Update, Delete.     *)
(* users.table is the table, users.nextID the id sequence, users.log the   *)
(* writes that succeeded, oldest first, users.last the last call.          *)
(***************************************************************************)

\* The most writes of a behaviour.
MaxWrites == 3

ErrUserNotFound == "user not found"

ErrEmailExists == "email already exists"

User(id, name, email) == [ID |-> id, Name |-> name, Email |-> email]

\* The zero User a failed lookup returns.
NoUser == User(0, "", "")

\* The rows of the table with this id; with this email.
ByID(table, id) == {u \in table : u.ID = id}

ByEmail(table, email) == {u \in table : u.Email = email}

Called(op, arg, err, user) == [op |-> op, arg |-> arg, err |-> err, user |-> user]

\* repo.Create(ctx, user): inserts the user under the next id of the
\* sequence and sets user.ID; the email is unique.
Create(name, email) ==
    /\ users.op = "repo"
    /\ Len(users.log) < MaxWrites
    /\ IF ByEmail(users.table, email) # {}
          THEN users' = [users EXCEPT !.last = Called("Create", User(0, name, email),
                                                      ErrEmailExists, User(0, name, email))]
          ELSE LET user == User(users.nextID, name, email)
               IN  users' = [users EXCEPT !.table = @ \cup {user},
                                          !.nextID = @ + 1,
                                          !.log = Append(@, [op |-> "Create", user |-> user]),
                                          !.last = Called("Create", User(0, name, email), "", user)]
    /\ UNCHANGED <<app, san>>
    /\ UNCHANGED <<pipelineVars, ctx, storeVars, connVars, issuerVars>>

\* Update that leaves the stored name as it was.
Update_KeepsName(user) ==
    /\ users.op = "repo"
    /\ Len(users.log) < MaxWrites
    /\ IF ByID(users.table, user.ID) = {}
          THEN users' = [users EXCEPT !.last = Called("Update", user, ErrUserNotFound, user)]
          ELSE IF \E u \in ByEmail(users.table, user.Email) : u.ID # user.ID
          THEN users' = [users EXCEPT !.last = Called("Update", user, ErrEmailExists, user)]
          ELSE users' = [users EXCEPT
                            !.table = (@ \ ByID(@, user.ID)) \cup
                                      {User(u.ID, u.Name, user.Email) : u \in ByID(@, user.ID)},
                            !.log = Append(@, [op |-> "Update", user |-> user]),
                            !.last = Called("Update", user, "", user)]
    /\ UNCHANGED <<app, san>>
    /\ UNCHANGED <<pipelineVars, ctx, storeVars, connVars, issuerVars>>

\* repo.Update(ctx, user): writes the fields of user over the row with its id.
Update(user) ==
    /\ users.op = "repo"
    /\ Len(users.log) < MaxWrites
    /\ IF ByID(users.table, user.ID) = {}
          THEN users' = [users EXCEPT !.last = Called("Update", user, ErrUserNotFound, user)]
          ELSE IF \E u \in ByEmail(users.table, user.Email) : u.ID # user.ID
          THEN users' = [users EXCEPT !.last = Called("Update", user, ErrEmailExists, user)]
          ELSE users' = [users EXCEPT
                            !.table = (@ \ ByID(@, user.ID)) \cup {user},
                            !.log = Append(@, [op |-> "Update", user |-> user]),
                            !.last = Called("Update", user, "", user)]
    /\ UNCHANGED <<app, san>>
    /\ UNCHANGED <<pipelineVars, ctx, storeVars, connVars, issuerVars>>

\* repo.Delete(ctx, id): removes the row with this id.
Delete(id) ==
    /\ users.op = "repo"
    /\ Len(users.log) < MaxWrites
    /\ IF ByID(users.table, id) = {}
          THEN users' = [users EXCEPT !.last = Called("Delete", User(id, "", ""),
                                                      ErrUserNotFound, NoUser)]
          ELSE users' = [users EXCEPT
                            !.table = @ \ ByID(@, id),
                            !.log = Append(@, [op |-> "Delete", user |-> User(id, "", "")]),
                            !.last = Called("Delete", User(id, "", ""), "", NoUser)]
    /\ UNCHANGED <<app, san>>
    /\ UNCHANGED <<pipelineVars, ctx, storeVars, connVars, issuerVars>>

\* repo.GetByID(ctx, id)
GetByID(id) ==
    /\ users.op = "repo"
    /\ users' = [users EXCEPT !.last =
                    IF ByID(users.table, id) = {}
                       THEN Called("GetByID", User(id, "", ""), ErrUserNotFound, NoUser)
                       ELSE Called("GetByID", User(id, "", ""), "",
                                   CHOOSE u \in ByID(users.table, id) : TRUE)]
    /\ UNCHANGED <<app, san>>
    /\ UNCHANGED <<pipelineVars, ctx, storeVars, connVars, issuerVars>>

\* repo.GetByEmail(ctx, email)
GetByEmail(email) ==
    /\ users.op = "repo"
    /\ users' = [users EXCEPT !.last =
                    IF ByEmail(users.table, email) = {}
                       THEN Called("GetByEmail", User(0, "", email), ErrUserNotFound, NoUser)
                       ELSE Called("GetByEmail", User(0, "", email), "",
                                   CHOOSE u \in ByEmail(users.table, email) : TRUE)]
    /\ UNCHANGED <<app, san>>
    /\ UNCHANGED <<pipelineVars, ctx, storeVars, connVars, issuerVars>>

RepoNames == {"Original Name", "Updated Name"}

RepoEmails == {"test@example.com", "findme@example.com"}

RepoIDs == 1..MaxWrites

\* NewRepository(db) over the migrated, empty table.
RepoInit ==
    /\ PipelineIdle
    /\ ctx = EmptyContext
    /\ StoreIdle
    /\ ConnsIdle
    /\ IssuerIdle
    /\ app = NoCall
    /\ san = NoCall
    /\ users = [op |-> "repo", table |-> {}, nextID |-> 1, log |-> <<>>,
                last |-> Called("NewRepository", NoUser, "", NoUser)]

RepoNext ==
    \/ \E name \in RepoNames, email \in RepoEmails : Create(name, email)
    \/ \E id \in RepoIDs, name \in RepoNames, email \in RepoEmails : Update(User(id, name, email))
    \/ \E id \in RepoIDs : Delete(id)
    \/ \E id \in RepoIDs : GetByID(id)
    \/ \E email \in RepoEmails : GetByEmail(email)

RepoSpec == RepoInit /\ [][RepoNext]_vars

(***************************************************************************)
(* Application lifecycle (main_fx.go): the fx.Hook of mainWithFx.          *)
(* app.srv is the *http.Server ("serving", "draining" once Shutdown has    *)
(* closed the listeners, "closed"), app.db the connection pool behind      *)
(* *gorm.DB, app.pc the position of OnStop, app.reqs the requests: "none"  *)
(* (not yet received), "handling" (its handler is running), "served" (its  *)
(* handler ran its query and answered), "failed" (its handler's query was  *)
(* refused by a closed pool).                                              *)
(***************************************************************************)

\* The most requests of a behaviour.
MaxRequests == 3

\* srv.ListenAndServe() accepts request i and starts its handler.
AcceptRequest(i) ==
    /\ app.op = "app"
    /\ app.srv = "serving"
    /\ app.reqs[i] = "none"
    /\ app' = [app EXCEPT !.reqs[i] = "handling"]
    /\ UNCHANGED <<users, san>>
    /\ UNCHANGED <<pipelineVars, ctx, storeVars, connVars, issuerVars>>

\* The handler of request i runs its query on the *gorm.DB it was provided
\* with and answers; a closed pool refuses the query.
HandleRequest(i) ==
    /\ app.op = "app"
    /\ app.reqs[i] = "handling"
    /\ app' = [app EXCEPT !.reqs[i] = IF app.db = "open" THEN "served" ELSE "failed"]
    /\ UNCHANGED <<users, san>>
    /\ UNCHANGED <<pipelineVars, ctx, storeVars, connVars, issuerVars>>

\* The application is asked to stop: fx runs OnStop.
OnStop ==
    /\ app.op = "app"
    /\ app.pc = "running"
    /\ app' = [app EXCEPT !.pc = "closeDatabase"]
    /\ UNCHANGED <<users, san>>
    /\ UNCHANGED <<pipelineVars, ctx, storeVars, connVars, issuerVars>>

\* OnStop, lines 173-180: sqlDB, err := db.DB(); if err == nil, sqlDB.Close().
CloseDatabase ==
    /\ app.op = "app"
    /\ app.pc = "closeDatabase"
    /\ \E err \in BOOLEAN :
          app' = [app EXCEPT !.pc = "shutdown", !.db = IF err THEN @ ELSE "closed"]
    /\ UNCHANGED <<users, san>>
    /\ UNCHANGED <<pipelineVars, ctx, storeVars, connVars, issuerVars>>

\* OnStop, line 183: srv.Shutdown(ctx) closes the listeners, no request is
\* accepted any more.
ShutdownServer ==
    /\ app.op = "app"
    /\ app.pc = "shutdown"
    /\ app' = [app EXCEPT !.pc = "draining", !.srv = "draining"]
    /\ UNCHANGED <<users, san>>
    /\ UNCHANGED <<pipelineVars, ctx, storeVars, connVars, issuerVars>>

\* srv.Shutdown(ctx) returns: nil once no request is being handled, or the
\* context's error when ctx expires first.
ShutdownReturns ==
    /\ app.op = "app"
    /\ app.pc = "draining"
    /\ \/ /\ \A i \in DOMAIN app.reqs : app.reqs[i] # "handling"
          /\ app' = [app EXCEPT !.pc = "stopped", !.srv = "closed", !.err = ""]
       \/ /\ \E i \in DOMAIN app.reqs : app.reqs[i] = "handling"
          /\ app' = [app EXCEPT !.pc = "stopped", !.err = "context deadline exceeded"]
    /\ UNCHANGED <<users, san>>
    /\ UNCHANGED <<pipelineVars, ctx, storeVars, connVars, issuerVars>>

\* OnStart has returned: the server is listening, the pool is open.
StopInit ==
    /\ PipelineIdle
    /\ ctx = EmptyContext
    /\ StoreIdle
    /\ ConnsIdle
    /\ IssuerIdle
    /\ users = NoCall
    /\ san = NoCall
    /\ app = [op |-> "app", srv |-> "serving", db |-> "open", pc |-> "running", err |-> "",
              reqs |-> [i \in 1..MaxRequests |-> "none"]]

StopNext ==
    \/ \E i \in 1..MaxRequests : AcceptRequest(i)
    \/ \E i \in 1..MaxRequests : HandleRequest(i)
    \/ OnStop
    \/ CloseDatabase
    \/ ShutdownServer
    \/ ShutdownReturns

StopSpec == StopInit /\ [][StopNext]_vars

(***************************************************************************)
(* Vocabulary of the properties                                            *)
(***************************************************************************)

HasRun(mw) == \E i \in 1..Len(ran) : ran[i] = mw

GateRan == HasRun("RequireRole") \/ HasRun("RequireRoleCtx")

\* The gate the request's route mounts (every route mounts at most one).
GateOf(route) ==
    {route.chain[i] : i \in {i \in 1..Len(route.chain) :
                                route.chain[i].mw \in {"RequireRole", "RequireRoleCtx"}}}

PrincipalAttached ==
    /\ ctx[ContextKeyUserID].type # "none"
    /\ ctx[ContextKeyUserRole].type # "none"

LowerStr(s) == [i \in 1..Len(s) |-> Fold(s[i])]

\* r equals some member of the list R, ignoring case.
MatchesIgnoringCase(r, R) == \E i \in 1..Len(R) : LowerStr(r) = LowerStr(R[i])

LastResponse == responses[Len(responses)]

RejectedWith(status, msg) ==
    /\ aborted
    /\ responses = <<[status |-> status, msg |-> msg, key |-> ""]>>

\* s is a non-empty string of decimal digits.
IsDecimal(s) == s # <<>> /\ \A i \in 1..Len(s) : IsDigit(s[i])

RECURSIVE StripZeros(_)
StripZeros(s) == IF Len(s) > 1 /\ s[1] = "0" THEN StripZeros(Tail(s)) ELSE s

\* For digit strings of equal length: a denotes at most what b denotes.
LexLeq(a, b) ==
    \/ a = b
    \/ \E i \in 1..Len(a) :
          /\ \A k \in 1..(i - 1) : a[k] = b[k]
          /\ DigitVal(a[i]) < DigitVal(b[i])

\* s is a decimal string denoting a value v with 0 <= v < 2^32.
DenotesUint32(s) ==
    /\ IsDecimal(s)
    /\ \/ Len(StripZeros(s)) < Len(idMaxUint32)
       \/ /\ Len(StripZeros(s)) = Len(idMaxUint32)
          /\ LexLeq(StripZeros(s), idMaxUint32)

HasUserIDHeader == HeaderUserID \in DOMAIN req.headers

\* The extractor accepted the request: it attached the principal.
ExtractionSucceeded == HasRun("GatewayAuthMiddleware") /\ PrincipalAttached

(***************************************************************************)
(* C1.  The RBAC gate fails closed: when a gate has run on a context with  *)
(* no principal attached the request is rejected with 401, when it has run *)
(* on a principal whose role matches none of the required names the        *)
(* request is rejected with 403, and in both cases the handler is not run. *)
(* Stated for every gate: RequireRole, RequireAdminRole, RequireAdmin.     *)
(***************************************************************************)
C1_GateFailsClosed ==
    \A g \in GateOf(req.route) :
        GateRan =>
            IF ~PrincipalAttached
               THEN /\ aborted
                    /\ ~handlerRan
                    /\ LastResponse.status = StatusUnauthorized
            ELSE IF ~MatchesIgnoringCase(ctx[ContextKeyUserRole].v, g.roles)
               THEN /\ aborted
                    /\ ~handlerRan
                    /\ LastResponse.status = StatusForbidden
            ELSE TRUE

\* The contextutil variant of the gate has run on a context without
\* principal and answered 403.
C1_RequireAdminNoPrincipal ==
    /\ HasRun("RequireRoleCtx")
    /\ ~PrincipalAttached
    /\ LastResponse.status = StatusForbidden

(***************************************************************************)
(* C2.  For every list R of required names and every attached role r,      *)
(* RequireRole(R...) hands the request on to the next stage if and only if *)
(* r equals some member of R ignoring case; with an empty R it never does. *)
(***************************************************************************)
C2_RequireRolePassesIff ==
    \A g \in GateOf(req.route) :
        (HasRun("RequireRole") /\ PrincipalAttached) =>
            /\ ~aborted <=> MatchesIgnoringCase(ctx[ContextKeyUserRole].v, g.roles)
            /\ g.roles = <<>> => aborted

\* A role that differs from the matching name in case only is let through.
C2_Witness ==
    /\ HasRun("RequireRole")
    /\ ~aborted
    /\ ctx[ContextKeyUserRole] = StringValue(<<"A", "D", "M", "I", "N">>)
    /\ stRequireRole(<<roleUser, roleAdmin>>) \in GateOf(req.route)

(***************************************************************************)
(* C3.  On a route behind GatewayAuthMiddleware, a request without the     *)
(* X-User-ID header never reaches the handler and never gets an id or role *)
(* written to its context; when the extractor runs on it (the sanitation   *)
(* filter in front let it through), it is rejected there with 401 and no   *)
(* later stage runs.                                                       *)
(***************************************************************************)
C3_MissingUserIDRejected ==
    (req.route \in GatewayAuthRoutes /\ ~HasUserIDHeader) =>
        /\ ~handlerRan
        /\ ctx = EmptyContext
        /\ HasRun("GatewayAuthMiddleware") =>
              /\ RejectedWith(StatusUnauthorized, "missing user ID header")
              /\ ran[Len(ran)] = "GatewayAuthMiddleware"

C3_Witness ==
    /\ req.route.path = "/api/v1/users/:id"
    /\ ~HasUserIDHeader
    /\ HasRun("GatewayAuthMiddleware")
    /\ RejectedWith(StatusUnauthorized, "missing user ID header")

(***************************************************************************)
(* C4.  For every decimal string s denoting a value v with 0 <= v < 2^32,  *)
(* GatewayAuthMiddleware run on a request whose X-User-ID is s succeeds,   *)
(* and the id read back from the context is v: its decimal digits are      *)
(* those of s without leading zeros.                                       *)
(***************************************************************************)
C4_ValidUserIDAttached ==
    (HasRun("GatewayAuthMiddleware") /\ DenotesUint32(GetHeader(HeaderUserID))) =>
        /\ ExtractionSucceeded
        /\ \A i \in 1..Len(responses) : responses[i].status # StatusUnauthorized
        /\ GetUserIDFromContext(ctx).ok
        /\ FormatUint(GetUserIDFromContext(ctx).id) = StripZeros(GetHeader(HeaderUserID))
        /\ GetUserID(ctx) = GetUserIDFromContext(ctx).id

\* The largest id, 2^32 - 1, is attached without wrap-around.
C4_Witness ==
    /\ HasRun("GatewayAuthMiddleware")
    /\ GetHeader(HeaderUserID) = idMaxUint32
    /\ GetUserID(ctx) = U32(Limb - 1, Limb - 1)

(***************************************************************************)
(* C5 as stated: for every X-User-ID string that is not a decimal number   *)
(* representable in 32 bits, the extractor rejects with 401 "invalid user  *)
(* ID format", stores nothing and the handler is not run.                  *)
(***************************************************************************)
C5_MalformedUserIDRejected_Original ==
    ( /\ HasRun("GatewayAuthMiddleware")
      /\ HasUserIDHeader
      /\ ~DenotesUint32(GetHeader(HeaderUserID)) ) =>
        /\ RejectedWith(StatusUnauthorized, "invalid user ID format")
        /\ ctx = EmptyContext
        /\ ~handlerRan

(***************************************************************************)
(* C5, amended.  For every non-empty X-User-ID string that is not a        *)
(* decimal number representable in 32 bits (non-numeric, signed, negative  *)
(* or >= 2^32) the extractor rejects with 401 "invalid user ID format",    *)
(* stores nothing and the handler is not run; an empty X-User-ID value is  *)
(* rejected as a missing header, 401 "missing user ID header".             *)
(***************************************************************************)
C5_MalformedUserIDRejected ==
    ( /\ HasRun("GatewayAuthMiddleware")
      /\ HasUserIDHeader
      /\ ~DenotesUint32(GetHeader(HeaderUserID)) ) =>
        /\ IF GetHeader(HeaderUserID) = <<>>
              THEN RejectedWith(StatusUnauthorized, "missing user ID header")
              ELSE RejectedWith(StatusUnauthorized, "invalid user ID format")
        /\ ctx = EmptyContext
        /\ ~handlerRan
        /\ ran[Len(ran)] = "GatewayAuthMiddleware"

\* 2^32 itself is rejected as malformed.
C5_Witness ==
    /\ HasRun("GatewayAuthMiddleware")
    /\ GetHeader(HeaderUserID) = <<"4", "2", "9", "4", "9", "6", "7", "2", "9", "6">>
    /\ RejectedWith(StatusUnauthorized, "invalid user ID format")

(***************************************************************************)
(* C6.  Whenever identity extraction succeeds, the attached role is the    *)
(* X-User-Role value if the header is present and non-empty, and "user"    *)
(* if it is missing or empty; a missing or empty role header never causes  *)
(* a rejection by the extractor and never leaves the role empty.           *)
(***************************************************************************)
C6_RoleDefaultsToUser ==
    /\ ExtractionSucceeded =>
          /\ ctx[ContextKeyUserRole].type = "string"
          /\ ctx[ContextKeyUserRole].v # <<>>
          /\ IF HeaderUserRole \in DOMAIN req.headers /\ req.headers[HeaderUserRole] # <<>>
                THEN ctx[ContextKeyUserRole].v = req.headers[HeaderUserRole]
                ELSE ctx[ContextKeyUserRole].v = <<"u", "s", "e", "r">>
    /\ ( /\ HasRun("GatewayAuthMiddleware")
         /\ DenotesUint32(GetHeader(HeaderUserID))
         /\ GetHeader(HeaderUserRole) = <<>> ) =>
          /\ ExtractionSucceeded
          /\ \A i \in 1..Len(responses) : responses[i].status # StatusUnauthorized

\* A present but empty role header yields the baseline role.
C6_Witness ==
    /\ ExtractionSucceeded
    /\ HeaderUserRole \in DOMAIN req.headers
    /\ req.headers[HeaderUserRole] = <<>>
    /\ GetUserRole(ctx) = <<"u", "s", "e", "r">>

(***************************************************************************)
(* C7.  For every principal p and target id t, CanAccessUser(p, t) is true *)
(* if p's role is "admin", whatever t is; otherwise it is true if and only *)
(* if p.id = t.                                                            *)
(***************************************************************************)
C7_CanAccessUser ==
    access.checked =>
        LET id   == GetUserIDFromContext(ctx).id
            role == GetUserRoleFromContext(ctx).role
        IN  /\ role = <<"a", "d", "m", "i", "n">> => access.granted
            /\ role # <<"a", "d", "m", "i", "n">> => (access.granted <=> id = access.target)

\* An admin is granted access to another user's record.
C7_Witness ==
    /\ access.checked
    /\ access.granted
    /\ PrincipalAttached
    /\ GetUserRole(ctx) = <<"a", "d", "m", "i", "n">>
    /\ GetUserID(ctx) = U32(0, 7)
    /\ access.target = U32(0, 4)

(***************************************************************************)
(* C8.  On the admin routes, once the request has got past the sanitation  *)
(* filter: with a valid X-User-ID and X-User-Role: user it ends rejected   *)
(* with 403 and the handler is not run; with X-User-Role: admin it passes  *)
(* the gate and the handler runs.  The admin handlers run only for         *)
(* requests whose role header is admin (compared ignoring case, as the     *)
(* gate compares).                                                         *)
(***************************************************************************)
C8_AdminRoutesNeedAdmin ==
    req.route \in AdminRoutes =>
        /\ handlerRan =>
              /\ LowerStr(GetHeader(HeaderUserRole)) = <<"a", "d", "m", "i", "n">>
              /\ DenotesUint32(GetHeader(HeaderUserID))
        /\ ( /\ Done
             /\ HasRun("GatewayAuthMiddleware")
             /\ DenotesUint32(GetHeader(HeaderUserID)) ) =>
              /\ GetHeader(HeaderUserRole) = <<"u", "s", "e", "r">> =>
                    /\ RejectedWith(StatusForbidden, "insufficient permissions")
                    /\ ~handlerRan
              /\ GetHeader(HeaderUserRole) = <<"a", "d", "m", "i", "n">> =>
                    /\ handlerRan
                    /\ responses = <<>>

\* X-User-ID: 7 with X-User-Role: user is refused on an admin route.
C8_Witness ==
    /\ req.route \in AdminRoutes
    /\ GetHeader(HeaderUserID) = <<"7">>
    /\ GetHeader(HeaderUserRole) = <<"u", "s", "e", "r">>
    /\ RejectedWith(StatusForbidden, "insufficient permissions")
    /\ ~handlerRan

\* Every query-string value and every path-parameter value of a request.
AllValues(r) ==
    UNION {{r.query[k][i] : i \in 1..Len(r.query[k])} : k \in DOMAIN r.query}
    \cup {r.params[i].Value : i \in 1..Len(r.params)}

\* v matches an attack signature, whichever signature is tried first.
AttackSignature(v) ==
    \/ \E i \in 1..Len(sqlInjectionPatterns) : MatchString(sqlInjectionPatterns[i], v)
    \/ \E i \in 1..Len(xssPatterns) : MatchString(xssPatterns[i], v)
    \/ Contains(v, <<"'", "'">>)
    \/ Contains(v, <<"\"", "\"">>)

\* Every value some request of the model carries, and those among them that
\* match an attack signature.
RequestValues == UNION {AllValues(r) : r \in Requests}

SignatureValues == {v \in RequestValues : AttackSignature(v)}

\* isSuspicious, which tries the signatures in source order and stops at the
\* first match, decides exactly the values that match some signature.
SignatureOrderIrrelevant == \A v \in RequestValues : isSuspicious(v) <=> v \in SignatureValues

\* isSuspicious on the literal inputs.
LiteralsClassified ==
    /\ \A v \in {vOrTrue, vScript, vDrop, vOrQuote} : isSuspicious(v)
    /\ \A v \in {vAlice, v42, vDate} : ~isSuspicious(v)

\* The sanitation filter rejected the request: one 400 response, nothing
\* after the filter ran.
FilterRejected ==
    /\ aborted
    /\ Len(responses) = 1
    /\ responses[1].status = StatusBadRequest
    /\ ran = <<"InputValidationMiddleware">>

(***************************************************************************)
(* C9.  The sanitation filter inspects every value of every query key and  *)
(* every path-parameter value: once it has run, the request is rejected    *)
(* with 400 and never reaches a handler if and only if at least one of     *)
(* those values matches an attack signature, in whatever order the keys    *)
(* are visited and the signatures tried.                                   *)
(***************************************************************************)
C9_FilterRejectsIffSuspicious ==
    HasRun("InputValidationMiddleware") =>
        /\ FilterRejected <=> AllValues(req) \cap SignatureValues # {}
        /\ FilterRejected => ~handlerRan
        /\ ~FilterRejected => \A i \in 1..Len(responses) : responses[i].status # StatusBadRequest
        /\ SignatureOrderIrrelevant

\* The second value of a key is the offending one.
C9_Witness ==
    /\ FilterRejected
    /\ req.query = [k \in {"q"} |-> <<vAlice, vOrTrue>>]
    /\ responses[1].key = "q"

\* The values of the request's query string.
QueryValues(r) == UNION {{r.query[k][i] : i \in 1..Len(r.query[k])} : k \in DOMAIN r.query}

(***************************************************************************)
(* C10.  As query values the filter rejects each of 1' OR '1'='1,          *)
(* <script>alert(1)</script>, 1; DROP TABLE users;-- and 1" OR ""=", and   *)
(* accepts each of alice, 42 and 2024-01-01; isSuspicious is true of the   *)
(* former and false of the latter.                                         *)
(***************************************************************************)
C10_LiteralInputs ==
    /\ LiteralsClassified
    /\ HasRun("InputValidationMiddleware") =>
          /\ QueryValues(req) \cap {vOrTrue, vScript, vDrop, vOrQuote} # {} => FilterRejected
          /\ ( /\ QueryValues(req) # {}
               /\ QueryValues(req) \subseteq {vAlice, v42, vDate}
               /\ req.params = <<>> ) => ~aborted \/ ran # <<"InputValidationMiddleware">>

\* 1" OR ""=" as the value of a query parameter is rejected.
C10_Witness ==
    /\ req.query = SingleQuery("name", vOrQuote)
    /\ FilterRejected
    /\ responses[1].key = "name"

\* The query keys of r that hold a value matching an attack signature, and
\* the positions of its path parameters that do.
OffendingQueryKeys(r) ==
    {k \in DOMAIN r.query : \E i \in 1..Len(r.query[k]) : r.query[k][i] \in SignatureValues}

OffendingParams(r) == {i \in 1..Len(r.params) : r.params[i].Value \in SignatureValues}

\* The rejections that name an offending parameter of r and nothing else:
\* they are determined by r's keys and by which parameters offend, whatever
\* the offending values are.
NameOnlyRejections(r) ==
    { [status |-> StatusBadRequest, msg |-> MsgQueryParameter, key |-> k] :
          k \in OffendingQueryKeys(r) }
    \cup (IF OffendingQueryKeys(r) = {}
             THEN { [status |-> StatusBadRequest, msg |-> MsgPathParameter,
                     key |-> r.params[i].Key] :
                       i \in {i \in OffendingParams(r) :
                                 \A j \in OffendingParams(r) : i <= j} }
             ELSE {})

\* r has exactly one offending parameter.
SingleOffender(r) == Cardinality(OffendingQueryKeys(r)) + Cardinality(OffendingParams(r)) = 1

(***************************************************************************)
(* C11.  When the filter rejects a request the response is a 400 whose     *)
(* message is the fixed text followed by the key of an offending           *)
(* parameter; it is determined by the keys of the request and by which     *)
(* parameters offend, so that requests differing only in the suspicious    *)
(* value of their single offending parameter get the same response.        *)
(***************************************************************************)
C11_RejectionNamesKeyOnly ==
    FilterRejected =>
        /\ responses[1].status = StatusBadRequest
        /\ responses[1] \in NameOnlyRejections(req)
        /\ SingleOffender(req) => NameOnlyRejections(req) = {responses[1]}

\* Of two query keys the second one visited holds the suspicious value, and
\* it is the one the response names.
C11_Witness ==
    /\ FilterRejected
    /\ req.query = [k \in {"name", "q"} |-> IF k = "name" THEN <<vAlice>> ELSE <<vScript>>]
    /\ SingleOffender(req)
    /\ responses[1] = [status |-> StatusBadRequest, msg |-> MsgQueryParameter, key |-> "q"]

\* The names of the stages of a route's chain, in order.
StageNames(route) == [i \in 1..Len(route.chain) |-> route.chain[i].mw]

\* ran is a prefix of the chain: the stages were entered in the chain's order.
RanInChainOrder ==
    /\ Len(ran) <= Len(req.route.chain)
    /\ \A i \in 1..Len(ran) : ran[i] = StageNames(req.route)[i]

\* Position of the first stage named mw in the chain, 0 when there is none.
StagePos(route, mw) ==
    IF \E i \in 1..Len(route.chain) : route.chain[i].mw = mw
       THEN CHOOSE i \in 1..Len(route.chain) :
               /\ route.chain[i].mw = mw
               /\ \A j \in 1..(i - 1) : route.chain[j].mw # mw
       ELSE 0

(***************************************************************************)
(* C12.  On every route of SetupRouter the stages are entered in the order *)
(* sanitation filter, header extractor, RBAC gate, business handler: the   *)
(* extractor, a gate or the handler has run only after the filter ran and  *)
(* accepted the request, and a request to a protected route with both a    *)
(* suspicious parameter and no identity header ends rejected by the filter *)
(* with 400, the extractor never running.                                  *)
(***************************************************************************)
C12_StagesInOrder ==
    req.route \in SetupRouter =>
        /\ RanInChainOrder
        /\ StagePos(req.route, "InputValidationMiddleware") = 1
        /\ StagePos(req.route, "RequireRole") # 0 =>
              /\ StagePos(req.route, "GatewayAuthMiddleware") # 0
              /\ StagePos(req.route, "GatewayAuthMiddleware") < StagePos(req.route, "RequireRole")
        /\ StagePos(req.route, "Handler") = Len(req.route.chain)
        /\ (HasRun("GatewayAuthMiddleware") \/ GateRan \/ handlerRan) =>
              /\ ran[1] = "InputValidationMiddleware"
              /\ AllValues(req) \cap SignatureValues = {}
              /\ \A i \in 1..Len(responses) : responses[i].status # StatusBadRequest
        /\ GateRan => PrincipalAttached
        /\ ( /\ req.route \in GatewayAuthRoutes
             /\ AllValues(req) \cap SignatureValues # {}
             /\ GetHeader(HeaderUserID) = <<>>
             /\ ran # <<>> ) =>
              /\ FilterRejected
              /\ ~HasRun("GatewayAuthMiddleware")
              /\ \A i \in 1..Len(responses) : responses[i].status # StatusUnauthorized

\* A request to an admin route with a suspicious query value and no
\* X-User-ID header was answered 400 by the filter.
C12_Witness ==
    /\ req.route.path = "/api/v1/admin/users/:id"
    /\ ~HasUserIDHeader
    /\ req.query = SingleQuery("q", vOrTrue)
    /\ FilterRejected
    /\ responses[1].status = StatusBadRequest

\* The two terminal states of a request.
Authorized == ~aborted /\ handlerRan /\ responses = <<>> /\ index = Len(req.route.chain) + 1

Rejected ==
    /\ aborted
    /\ ~handlerRan
    /\ Len(responses) = 1
    /\ responses[1].status \in {StatusBadRequest, StatusUnauthorized, StatusForbidden}

(***************************************************************************)
(* C13.  A request whose processing is over is in exactly one of the       *)
(* terminal states Authorized (every stage passed, the handler ran, no     *)
(* rejection was written) and Rejected (one stage wrote its status), and a *)
(* request's processing is eventually over, for good.  A rejection is the  *)
(* last thing that happens in it: the rejecting stage is the               *)
(* last stage entered, the handler was not run and exactly one response    *)
(* was written.                                                            *)
(***************************************************************************)
TerminalStateInv ==
    /\ RanInChainOrder
    /\ Done => (Authorized /\ ~Rejected) \/ (Rejected /\ ~Authorized)
    /\ responses # <<>> => Rejected
    /\ aborted => /\ Rejected
                  /\ Len(ran) = index
                  /\ ran[Len(ran)] # "Handler"
    /\ ~aborted => Len(ran) = index - 1
    /\ handlerRan => ~aborted /\ ran[Len(ran)] = "Handler"

C13_OneTerminalState == []TerminalStateInv /\ <>[]Done

\* The gate rejected: the extractor before it passed, the handler after it
\* did not run.
C13_Witness ==
    /\ Done
    /\ Rejected
    /\ ran = <<"InputValidationMiddleware", "GatewayAuthMiddleware", "RequireRole">>
    /\ responses[1].status = StatusForbidden

\* How many times the stage mw was entered.
TimesRun(mw) == Cardinality({i \in 1..Len(ran) : ran[i] = mw})

(***************************************************************************)
(* C14.  The request context store is written by GatewayAuthMiddleware     *)
(* only, once per request, on an empty store: every step taken after a     *)
(* principal was attached, and every step of the sanitation filter or of   *)
(* an RBAC gate, leaves the store and the request unchanged, so the id and *)
(* role read later are the attached ones.                                  *)
(***************************************************************************)
C14_PrincipalNeverRederived ==
    [][ /\ PrincipalAttached => ctx' = ctx
        /\ ctx' # ctx => /\ Current = stGatewayAuth
                         /\ ctx = EmptyContext
                         /\ ~HasRun("GatewayAuthMiddleware")
        /\ Current.mw \in {"InputValidationMiddleware", "RequireRole", "RequireRoleCtx"} =>
              ctx' = ctx
        /\ req' = req
        /\ PrincipalAttached =>
              /\ GetUserID(ctx') = GetUserID(ctx)
              /\ GetUserRole(ctx') = GetUserRole(ctx)
              /\ GetUserIDFromContext(ctx') = GetUserIDFromContext(ctx)
              /\ GetUserRoleFromContext(ctx') = GetUserRoleFromContext(ctx) ]_vars

\* The handler runs behind a gate that matched the role ignoring case: the
\* role it reads still has the casing of the header.
C14_Witness ==
    /\ handlerRan
    /\ HasRun("RequireRole")
    /\ TimesRun("GatewayAuthMiddleware") = 1
    /\ GetHeader(HeaderUserRole) = <<"A", "D", "M", "I", "N">>
    /\ GetUserRole(ctx) = <<"A", "D", "M", "I", "N">>
    /\ GetUserID(ctx) = U32(0, 7)

\* The role names the comparisons are made against.
RoleNames == {roleAdmin, roleUser, <<"e", "d", "i", "t", "o", "r">>}

(***************************************************************************)
(* C15.  The stored role keeps the casing of the X-User-Role header, and   *)
(* every comparison made against it ignores case: for every name n, the    *)
(* RBAC gate, HasRole, IsAdmin and CanAccessUser treat the stored role r   *)
(* as matching n exactly when r equals n ignoring case.                    *)
(***************************************************************************)
C15_RoleComparisonIgnoresCase ==
    ExtractionSucceeded =>
        LET r == ctx[ContextKeyUserRole].v
        IN  /\ r = DefaultRole(GetHeader(HeaderUserRole))
            /\ \A n \in RoleNames : HasRole(ctx, n) <=> LowerStr(r) = LowerStr(n)
            /\ IsAdmin(ctx) <=> LowerStr(r) = roleAdmin
            /\ (HasRun("RequireRole") /\ ~aborted) =>
                  \A g \in GateOf(req.route) : MatchesIgnoringCase(r, g.roles)
            /\ (access.checked /\ LowerStr(r) = roleAdmin) => access.granted

\* Role "Admin" passed the admin gate, and the evaluator then denied it
\* another user's record: it is not an admin for IsAdmin and CanAccessUser.
C15_AdminForGateOnly ==
    /\ req.route \in AdminRoutes
    /\ GetUserRole(ctx) = <<"A", "d", "m", "i", "n">>
    /\ HasRun("RequireRole")
    /\ handlerRan
    /\ ~IsAdmin(ctx)
    /\ access.checked
    /\ ~access.granted


\* The getters on the store as it is agree with what the setters last wrote.
RoundTrip ==
    /\ written.id.set =>
          /\ GetUserID(ctx) = written.id.v
          /\ MustGetUserID(ctx).id = written.id.v
          /\ reads.taken => reads.GetUserID = written.id.v
    /\ written.role.set =>
          /\ GetUserRole(ctx) = written.role.v
          /\ MustGetUserRole(ctx).role = written.role.v
          /\ reads.taken => reads.GetUserRole = written.role.v

(***************************************************************************)
(* C16.  Within one request scope, after any sequence of SetUserID and     *)
(* SetUserRole calls GetUserID and GetUserRole return the id and the role  *)
(* written last, unchanged; and a step that attaches the principal already *)
(* attached (the id and role last written stay the same) leaves the        *)
(* results of the getters as they were.                                    *)
(***************************************************************************)
C16_SetThenGet ==
    /\ []RoundTrip
    /\ [][ (written.id.set /\ written.role.set /\ written' = written) =>
              /\ GetUserID(ctx') = GetUserID(ctx)
              /\ GetUserRole(ctx') = GetUserRole(ctx)
              /\ IsAuthenticated(ctx') = IsAuthenticated(ctx) ]_vars

\* Id 4 and role "Admin" are the values written last: the getters returned
\* them, the role in its casing.
C16_Witness ==
    /\ written.id = [set |-> TRUE, v |-> U32(0, 4)]
    /\ written.role = [set |-> TRUE, v |-> <<"A", "d", "m", "i", "n">>]
    /\ reads.taken
    /\ reads.GetUserID = U32(0, 4)
    /\ reads.GetUserRole = <<"A", "d", "m", "i", "n">>

\* The id GetUserID is to return for the value stored under user_id: the
\* stored uint, the stored int as a uint, the number a stored string
\* denotes, and the sentinel 0 in every other case.
ExpectedShape(value) ==
    \/ value.type \in {"uint", "int"}
    \/ value.type = "string" /\ DenotesUint32(value.v)

(***************************************************************************)
(* C17.  The getters never fail.  GetUserID returns the stored id (a uint, *)
(* an int converted to uint, or the value of a decimal string below 2^32), *)
(* and 0 when the key is unset or holds any other shape; MustGetUserID     *)
(* returns its error exactly when GetUserID returns 0, and the same id     *)
(* otherwise; GetUserRole returns the stored string and "" when the key is *)
(* unset or holds no string, MustGetUserRole errs exactly when that is     *)
(* ""; IsAuthenticated is true exactly when GetUserID is not 0.            *)
(***************************************************************************)
C17_GettersNeverFail ==
    /\ ENABLED CallGetters
    /\ reads.taken =>
          LET stored == ctx[UserIDKey]
              role   == ctx[UserRoleKey]
              id     == reads.GetUserID
          IN  /\ id \in [hi : 0..(Limb - 1), lo : 0..(Limb - 1)]
              /\ ~ExpectedShape(stored) => id = Zero32
              /\ stored.type = "uint" => id = stored.v
              /\ (stored.type = "int" /\ stored.v >= 0) => id = U32(0, stored.v)
              /\ (stored.type = "int" /\ stored.v < 0) => id # Zero32
              /\ (stored.type = "string" /\ DenotesUint32(stored.v)) =>
                    FormatUint(id) = StripZeros(stored.v)
              /\ (reads.MustGetUserID.err # "") <=> id = Zero32
              /\ reads.MustGetUserID.id = id
              /\ reads.GetUserRole = IF role.type = "string" THEN role.v ELSE <<>>
              /\ (reads.MustGetUserRole.err # "") <=> reads.GetUserRole = <<>>
              /\ reads.MustGetUserRole.role = reads.GetUserRole
              /\ reads.IsAuthenticated <=> id # Zero32

\* The key user_id is set, to the uint 0, and user_role to something that is
\* no string: both Must getters return their error.
C17_Witness ==
    /\ reads.taken
    /\ ctx[UserIDKey].type = "uint"
    /\ ctx[UserIDKey].v = Zero32
    /\ ctx[UserRoleKey].type = "other"
    /\ reads.GetUserID = Zero32
    /\ reads.MustGetUserID.err = "user ID not found in context"
    /\ reads.MustGetUserRole.err = "user role not found in context"
    /\ ~reads.IsAuthenticated

\* The principal the headers of request r denote.
OwnID(r) == ParseUint(HeaderOf(r, HeaderUserID)).v

OwnRole(r) == DefaultRole(HeaderOf(r, HeaderUserRole))

\* Whatever the context of request k holds, and whatever was read from it,
\* comes from k's own headers.
OwnPrincipalOnly(k) ==
    /\ k.ctx[ContextKeyUserID].type \in {"none", "uint"}
    /\ k.ctx[ContextKeyUserID].type = "uint" => k.ctx[ContextKeyUserID].v = OwnID(k.req)
    /\ k.ctx[ContextKeyUserRole].type \in {"none", "string"}
    /\ k.ctx[ContextKeyUserRole].type = "string" => k.ctx[ContextKeyUserRole].v = OwnRole(k.req)
    /\ k.seen.read => /\ k.seen.id = OwnID(k.req)
                      /\ k.seen.role = OwnRole(k.req)
                      /\ k.ctx[ContextKeyUserID].type = "uint"

(***************************************************************************)
(* C18.  In every interleaving of the requests served side by side, the    *)
(* id and role a request's context holds, and the ones its handler reads,  *)
(* are those of the request's own headers; a step taken for one request    *)
(* changes nothing of another request; and the package-level pattern       *)
(* tables are never written.                                               *)
(***************************************************************************)
C18_RequestsIsolated ==
    /\ [](\A i \in DOMAIN conns : OwnPrincipalOnly(conns[i]))
    /\ [](pkg = PackageVars)
    /\ [][ /\ pkg' = pkg
           /\ \A i, j \in DOMAIN conns :
                 (i # j /\ conns'[i] # conns[i]) => conns'[j] = conns[j] ]_vars

\* The handler of request 2 read id 7 and role admin while request 1, of
\* user 4, was between its two c.Set calls.
C18_Witness ==
    /\ conns # <<>>
    /\ conns[1].pc = "SetUserRole"
    /\ conns[1].ctx[ContextKeyUserID].type = "uint"
    /\ conns[1].ctx[ContextKeyUserID].v = U32(0, 4)
    /\ conns[2].seen = [read |-> TRUE, id |-> U32(0, 7), role |-> roleAdmin]


\* The refresh lifetime the configuration asks for: its RefreshTokenTTL, or
\* 168 hours when that is unset.
ConfiguredRefreshTTL == IF issued.cfg.RefreshTokenTTL = 0 THEN 168 * Hour ELSE issued.cfg.RefreshTokenTTL

\* The claims a refresh token carries.
RefreshClaimNames == {"sub", "type", "exp", "iat", "nbf"}

\* C19: GenerateAccessToken queries the user's roles only when it is given
\* no role list (and only then, if it has a database); a failed query fails
\* the issuance with the role-lookup error, returns no token and signs
\* nothing; a role list that is given, even an empty one, becomes the
\* token's roles claim without a query.
C19_RolesResolvedOnlyWhenAbsent ==
    issued.op = "GenerateAccessToken" =>
        /\ issued.queried => issued.roles.nil
        /\ (issued.roles.nil /\ gen.db # "nil") => issued.queried
        /\ issued.dbFailed => issued.queried
        /\ issued.dbFailed =>
              /\ issued.err = "failed to fetch user roles"
              /\ ~issued.token.ok
              /\ ~issued.signed
        /\ ~issued.dbFailed =>
              /\ issued.err = ""
              /\ issued.signed
              /\ issued.token.ok
        /\ ~issued.roles.nil =>
              /\ ~issued.queried
              /\ issued.token.ok
              /\ issued.token.claims.roles = issued.roles

\* A role query has failed, and the issuance with it.
C19_Witness ==
    /\ issued.op = "GenerateAccessToken"
    /\ issued.roles.nil
    /\ issued.queried
    /\ issued.dbFailed
    /\ issued.err = "failed to fetch user roles"

\* C20 as stated: a refresh token carries exactly subject, type marker,
\* issued-at, not-before and expiry; its expiry is its issued-at plus the
\* refresh lifetime, which is longer than fifteen minutes.
C20_ExpiryIsIssuedAtPlusTTL ==
    issued.op = "GenerateRefreshToken" =>
        /\ issued.token.ok
        /\ DOMAIN issued.token.claims = RefreshClaimNames
        /\ issued.token.claims.sub = FormatUint(issued.userID)
        /\ issued.token.claims.type = "refresh"
        /\ issued.token.claims.exp * Second = issued.token.claims.iat * Second + ConfiguredRefreshTTL
        /\ ConfiguredRefreshTTL > 15 * Minute

\* C20: a refresh token carries exactly subject (the id in decimal), the
\* type marker "refresh", issued-at, not-before and expiry, hence no roles,
\* email or name; issued-at and not-before are the second of the call and
\* expiry is the second of the call's instant plus the refresh lifetime, so
\* it is issued-at plus the lifetime when the lifetime is whole seconds and
\* less than a second off otherwise; the lifetime is the configured one or
\* 168 hours, and 168 hours is longer than the default access lifetime.
C20_RefreshTokenClaims ==
    issued.op = "GenerateRefreshToken" =>
        /\ issued.err = ""
        /\ issued.token.ok
        /\ DOMAIN issued.token.claims = RefreshClaimNames
        /\ issued.token.claims.sub = FormatUint(issued.userID)
        /\ issued.token.claims.type = "refresh"
        /\ issued.token.claims.iat = Unix(issued.at)
        /\ issued.token.claims.nbf = issued.token.claims.iat
        /\ issued.token.claims.exp = Unix(issued.at + ConfiguredRefreshTTL)
        /\ ConfiguredRefreshTTL % Second = 0 =>
              issued.token.claims.exp * Second = issued.token.claims.iat * Second + ConfiguredRefreshTTL
        /\ issued.token.claims.exp * Second > issued.token.claims.iat * Second + ConfiguredRefreshTTL - Second
        /\ issued.token.claims.exp * Second < issued.token.claims.iat * Second + ConfiguredRefreshTTL + Second
        /\ issued.cfg.RefreshTokenTTL = 0 =>
              /\ gen.refreshTokenTTL = 168 * Hour
              /\ gen.refreshTokenTTL > 15 * Minute
              /\ (issued.cfg.AccessTokenTTL = 0 /\ issued.cfg.TTLHours = 0) =>
                    gen.refreshTokenTTL > gen.accessTokenTTL

\* A refresh token issued mid-second with a lifetime of a second and a
\* tick: its expiry is two seconds after its issued-at.
C20_Witness ==
    /\ issued.op = "GenerateRefreshToken"
    /\ issued.cfg.RefreshTokenTTL = Second + 1
    /\ issued.at % Second = Second - 1
    /\ issued.token.claims.exp = issued.token.claims.iat + 2


\* C21: outside development a generator whose signing secret is the built-in
\* default is never in service, and never signs a token, without a warning
\* logged when it was constructed (a failed start puts none in service).
C21_DefaultSecretNeverSilent ==
    (issued.op # "none" /\ issued.boot.Environment # "development" /\ gen.jwtSecret = defaultSecret) =>
        /\ issued.boot.logged # <<>>
        /\ (issued.op \in {"GenerateAccessToken", "GenerateRefreshToken"} /\ issued.token.ok) =>
              (issued.token.key = defaultSecret => issued.boot.logged # <<>>)

\* A production generator built from an empty secret has signed a token
\* with the default secret.
C21_SignedWithDefault ==
    /\ issued.op = "GenerateRefreshToken"
    /\ issued.boot.Environment = "production"
    /\ issued.cfg.Secret = <<>>
    /\ issued.token.key = defaultSecret
    /\ issued.boot.logged = <<>>


\* The last successful write of the user with this id among the first i
\* writes: its Create or Update, with the fields written, or its Delete.
RECURSIVE LastWriteOf(_, _, _)
LastWriteOf(log, i, id) ==
    IF i = 0 THEN [op |-> "none", user |-> NoUser]
    ELSE IF log[i].user.ID = id THEN log[i]
    ELSE LastWriteOf(log, i - 1, id)

LatestWrite(id) == LastWriteOf(users.log, Len(users.log), id)

\* The user exists: it was created and not deleted since.
Exists(id) == LatestWrite(id).op \in {"Create", "Update"}

CancelledWhilePending ==
    issued.op = "GenerateAccessToken" /\ issued.pc = "query" /\ issued.cancelled

\* C23: a request cancelled (or past its deadline) while the role query is
\* pending leads to GenerateAccessToken returning the role-lookup failure.
C23_CancelledLookupFails ==
    CancelledWhilePending ~>
        (issued.op = "GenerateAccessToken" /\ issued.pc = "done"
            /\ issued.err = "failed to fetch user roles")

\* The call is still waiting for the database after its request was cancelled.
C23_StillWaiting == CancelledWhilePending /\ ~issued.answer.got


\* The filter's decision as a function of values alone: reject exactly when
\* one of them matches an attack signature.
RejectOnValues(values) == values \cap SignatureValues # {}

\* The requests of the model that carry the same query-string and path
\* values as r and differ from it in body, in headers and in query keys.
SameValuesElsewhere(r) ==
    {o \in BodyRequests \cup FilterRequests :
        /\ AllValues(o) = AllValues(r)
        /\ o.body # r.body
        /\ o.headers # r.headers
        /\ DOMAIN o.query # DOMAIN r.query}

\* C24: whether the filter rejects a request is determined by the set of
\* its query-string values and path-parameter values; the body, the headers
\* and the parameter keys have no part in it, so requests that agree on
\* the values get the same decision.
C24_DecisionFromValuesOnly ==
    HasRun("InputValidationMiddleware") =>
        (FilterRejected <=> RejectOnValues(AllValues(req)))

\* A request whose body holds an attack literal has passed the filter; the
\* model holds a request with the same values, another key, other headers
\* and no body.
C24_Witness ==
    /\ HasRun("InputValidationMiddleware")
    /\ ~FilterRejected
    /\ req.body = vScript
    /\ req.query = SingleQuery("q", vAlice)
    /\ SameValuesElsewhere(req) # {}


\* s holds none of --, /*, */ and #.
NoCommentDelimiter(s) ==
    /\ ~Contains(s, <<"-", "-">>)
    /\ ~Contains(s, <<"/", "*">>)
    /\ ~Contains(s, <<"*", "/">>)
    /\ ~Contains(s, <<"#">>)

\* s holds no doubled single or double quote.
NoDoubledQuote(s) == ~Contains(s, <<"'", "'">>) /\ ~Contains(s, <<"\"", "\"">>)

\* s neither starts nor ends with white space.
Trimmed(s) == s = <<>> \/ (~IsSpace(s[1]) /\ ~IsSpace(s[Len(s)]))

\* C25: the result of SanitizeString holds none of --, /*, */ and #, holds
\* no doubled quote and has no leading or trailing white space.
C25_SanitizedIsClean ==
    san.op = "SanitizeString" =>
        /\ NoCommentDelimiter(san.output)
        /\ NoDoubledQuote(san.output)
        /\ Trimmed(san.output)

\* -#- comes out as --.
C25_DelimiterRebuilt ==
    /\ san.op = "SanitizeString"
    /\ san.input = <<"-", "#", "-">>
    /\ san.output = <<"-", "-">>


\* GatewayAuthMiddleware has run and a later gate or the handler has run
\* after it.
RanBehindGateway ==
    \E i \in 1..Len(ran) :
        /\ ran[i] = "GatewayAuthMiddleware"
        /\ \E j \in (i + 1)..Len(ran) : ran[j] \in {"RequireRole", "RequireRoleCtx", "Handler"}

\* C26: once a gate or the handler runs behind GatewayAuthMiddleware, the
\* context holds a principal whose id is at least 1: the stored id is a
\* non-zero uint, IsAuthenticated is true and MustGetUserID succeeds.
C26_PrincipalBehindGateway ==
    RanBehindGateway =>
        /\ ContextGet(ctx, ContextKeyUserID).exists
        /\ ContextGet(ctx, ContextKeyUserID).value.type = "uint"
        /\ ContextGet(ctx, ContextKeyUserID).value.v # Zero32
        /\ IsAuthenticated(ctx)
        /\ MustGetUserID(ctx).err = ""

\* X-User-ID: 0 has reached the handler, which finds no principal.
C26_ZeroIdReachesHandler ==
    /\ GetHeader(HeaderUserID) = <<"0">>
    /\ handlerRan
    /\ GetUserIDFromContext(ctx) = [id |-> Zero32, ok |-> TRUE]
    /\ ~IsAuthenticated(ctx)
    /\ MustGetUserID(ctx).err = "user ID not found in context"


\* On context c the accessors of contextutil and those of middleware return
\* the same id and the same role, 0 and "" standing for not found.
AccessorsAgree(c) ==
    /\ GetUserID(c) = GetUserIDFromContext(c).id
    /\ ~GetUserIDFromContext(c).ok => GetUserID(c) = Zero32
    /\ GetUserRole(c) = GetUserRoleFromContext(c).role
    /\ ~GetUserRoleFromContext(c).ok => GetUserRole(c) = <<>>

\* Each key of c is unset or holds what SetUserID / SetUserRole wrote last.
WrittenBySetters ==
    /\ written.id.set \/ ~ContextGet(ctx, ContextKeyUserID).exists
    /\ written.role.set \/ ~ContextGet(ctx, ContextKeyUserRole).exists

\* C27: on every context whose keys are unset or were written by SetUserID
\* and SetUserRole, and on what GatewayAuthMiddleware's two c.Set calls
\* write (the same keys and shapes as the setters'), GetUserID and
\* GetUserRole return the id and role that GetUserIDFromContext and
\* GetUserRoleFromContext return, with 0 and "" for not found.
C27_AccessorFamiliesAgree ==
    /\ WrittenBySetters => AccessorsAgree(ctx)
    /\ WrittenBySetters =>
          \A id \in StoreIDs, role \in StoreRoles :
             /\ ContextSet(ctx, ContextKeyUserID, UintValue(id)) = SetUserID(ctx, id)
             /\ ContextSet(ctx, ContextKeyUserRole, StringValue(role)) = SetUserRole(ctx, role)
    /\ reads.taken /\ WrittenBySetters =>
          /\ reads.GetUserID = GetUserIDFromContext(ctx).id
          /\ reads.GetUserRole = GetUserRoleFromContext(ctx).role

\* Id 7 and role Admin were written by the setters and both families were
\* read.
C27_Witness ==
    /\ written.id.set
    /\ written.id.v = U32(0, 7)
    /\ written.role.set
    /\ written.role.v = <<"A", "d", "m", "i", "n">>
    /\ reads.taken
    /\ GetUserIDFromContext(ctx) = [id |-> U32(0, 7), ok |-> TRUE]
    /\ GetUserRoleFromContext(ctx) = [role |-> <<"A", "d", "m", "i", "n">>, ok |-> TRUE]


\* C28: on stop the HTTP server is shut down before the pool is closed: the
\* pool is closed only once the server accepts nothing and no request is
\* being handled, so no handler's query meets a closed pool.
C28_ServerStopsBeforeDatabase ==
    app.op = "app" =>
        /\ app.db = "closed" =>
              /\ app.srv # "serving"
              /\ \A i \in DOMAIN app.reqs : app.reqs[i] # "handling"
        /\ \A i \in DOMAIN app.reqs : app.reqs[i] # "failed"

\* The pool was closed while the server was draining a request, whose query
\* was then refused.
C28_QueryOnClosedPool ==
    /\ app.op = "app"
    /\ app.db = "closed"
    /\ app.srv = "draining"
    /\ \E i \in DOMAIN app.reqs : app.reqs[i] = "failed"

=============================================================================
